---- MODULE Spec2Model ----
(***************************************************************************)
(* A model of scoff: the AST node ownership model (scoff/ast), the         *)
(* mutation-capable visitor (scoff/ast/visits), the scope-aware syntax     *)
(* checker built on it (scoff/ast/visits/syntax.py) and the state-machine  *)
(* example checker (examples/StateMachine).                                *)
(*                                                                         *)
(* Encoding of Python values.  A node is a positive integer (its object    *)
(* identity), None is 0 and a leaf value (a str) is a negative integer.    *)
(* A slot value or a callback result is a record [many, val]: a scalar x   *)
(* is [many |-> FALSE, val |-> <<x>>], a list is [many |-> TRUE, val |->   *)
(* the elements].  The recursion of _visit is an explicit stack of frames. *)
(***************************************************************************)
EXTENDS Integers, Sequences, FiniteSets, TLC

VARIABLES
    heap,     \* the ScoffASTObject instances: node id -> its fields
    vis,      \* the visitor object (self): flags, history, tables, scopes
    stack,    \* the activations of ASTVisitor._visit, innermost last
    retval,   \* the value returned by the _visit activation that ended last
    call,     \* the caller's view of visit(): status, returned value, error
    plan,     \* what the registered callbacks do for each node
    snap      \* the tree as it was when visit() / copy() was called

vars == <<heap, vis, stack, retval, call, plan, snap>>

----------------------------------------------------------------------------
(* Bounds of the model *)

ListLen == 3     \* elements of the sequence slot of the visited tree
NumSpare == 3    \* detached nodes the callbacks may return
MaxNest == 2     \* visits started from inside a callback, one inside the other

----------------------------------------------------------------------------
(* Values *)

None == 0
STR == -1

One(x) == [many |-> FALSE, val |-> <<x>>]
Many(s) == [many |-> TRUE, val |-> s]
NoneV == One(None)

IsNode(x) == x > 0
NoKey == ""

Reverse(s) == [i \in 1..Len(s) |-> s[Len(s) + 1 - i]]
Range(s) == {s[i] : i \in 1..Len(s)}
SubSeqFrom(s, i) == IF i > Len(s) THEN <<>> ELSE SubSeq(s, i, Len(s))
Prefix(s, k) == IF k <= 0 THEN <<>> ELSE SubSeq(s, 1, IF k > Len(s) THEN Len(s) ELSE k)
IsPrefix(s, t) == Len(s) <= Len(t) /\ \A i \in 1..Len(s) : s[i] = t[i]

----------------------------------------------------------------------------
(* ScoffASTObject *)

\* SCOFF_META of a node that is no copy has no "original_start_loc" entry
NoOrig == "none"
\* The declared type of a slot, an entry of __init__.__annotations__ of the class of
\* the node: no entry, a class K, Optional[K], list[K] or Optional[list[K]]
Decl(form, of) == [form |-> form, of |-> of]
NoDecl == Decl("none", "")
NoAnnotations == [name \in {} |-> NoDecl]
\* ScoffASTObject.__init__: the fields of a constructed node
NewNode(k, isroot, nm, sl, p, pk) ==
    [kind |-> k, root |-> isroot, names |-> nm, slots |-> sl,
     parent |-> p, pkey |-> pk, copy |-> FALSE, pos |-> None, orig |-> NoOrig,
     annotations |-> NoAnnotations]

\* class name of a value, as node.__class__.__name__ gives it
KindOf(h, x) == IF IsNode(x) THEN h[x].kind ELSE IF x = None THEN "NoneType" ELSE "str"

\* the parent setter: ignored on an initialized root node
SetParent(h, n, p) == IF h[n].root THEN h ELSE [h EXCEPT ![n].parent = p]

\* Adopt with the parent set and the parent key left as it was
AdoptParentOnly(h, owner, name, vals) ==
    [m \in DOMAIN h |->
        IF m \in Range(vals) /\ IsNode(m) THEN SetParent(h, m, owner)[m] ELSE h[m]]
\* value.parent = owner; value._parent_key = name, for every node of vals
Adopt(h, owner, name, vals) ==
    [m \in DOMAIN h |->
        IF m \in Range(vals) /\ IsNode(m)
        THEN [SetParent(h, m, owner)[m] EXCEPT !.pkey = name]
        ELSE h[m]]

\* ScoffASTObject.__setattr__ of a visitable slot of an initialized node
SetAttr(h, owner, name, v) ==
    [Adopt(h, owner, name, v.val) EXCEPT ![owner].slots[name] = v]

\* isinstance(x, K) for a class K of nodes
IsInstance(h, x, k) == IsNode(x) /\ h[x].kind = k

\* ScoffASTObject._check_generic_alias for a list[K]: FALSE stands for the TypeError
\* raised for an element of a sequence; a value that is no sequence passes
CheckGenericAlias(h, slot_type, v) ==
    v.many => \A i \in 1..Len(v.val) : IsInstance(h, v.val[i], slot_type.of)

\* ScoffASTObject._check_slot_type, lines 132-161, the types being declared by the
\* annotations of __init__: FALSE stands for the TypeError
CheckSlotType(h, owner, slot_name, v) ==
    IF slot_name \notin DOMAIN h[owner].annotations THEN TRUE
    ELSE LET slot_type == h[owner].annotations[slot_name]
         IN IF slot_type.form = "none" THEN TRUE
            ELSE IF slot_type.form = "list" THEN CheckGenericAlias(h, slot_type, v)
            ELSE IF slot_type.form = "optional_list"
                 THEN CheckGenericAlias(h, slot_type, v)   \* isinstance raises, lines 141-150
            ELSE IF slot_type.form = "optional"
                 THEN ~v.many /\ (v = NoneV \/ IsInstance(h, v.val[1], slot_type.of))
            ELSE ~v.many /\ IsInstance(h, v.val[1], slot_type.of)



----------------------------------------------------------------------------
(* OrderedDict: a sequence of [k, v] pairs in insertion order *)

DHas(d, key) == \E i \in 1..Len(d) : d[i].k = key
DGet(d, key) == d[CHOOSE i \in 1..Len(d) : d[i].k = key].v
DPut(d, key, value) ==
    IF DHas(d, key)
    THEN [i \in 1..Len(d) |-> IF d[i].k = key THEN [k |-> key, v |-> value] ELSE d[i]]
    ELSE Append(d, [k |-> key, v |-> value])
DKeys(d) == [i \in 1..Len(d) |-> d[i].k]
\* a dict as a function, for order-insensitive comparison (dict.__eq__)
DFun(d) == [key \in {d[i].k : i \in 1..Len(d)} |-> DGet(d, key)]

----------------------------------------------------------------------------
(* Exceptions: the class, the error code (None when it has none) and the   *)
(* number of VisitError wrappers around it                                 *)

NoExc == [type |-> "", code |-> None, wraps |-> 0]
Exc(t, c) == [type |-> t, code |-> c, wraps |-> 0]
Raised(v) == v.exc # NoExc

\* ScoffASTObject.__setattr__ on a visitable slot of an initialized node: the heap
\* and the exception raised
SetAttrChecked(h, owner, name, v) ==
    IF CheckSlotType(h, owner, name, v)
    THEN [h |-> SetAttr(h, owner, name, v), exc |-> NoExc]
    ELSE [h |-> h, exc |-> Exc("TypeError", None)]
Raise(v, e) == [v EXCEPT !.exc = e]

\* VisitError(ex)
VisitError(e) == [e EXCEPT !.wraps = @ + 1]

\* the attribute ex of a VisitError
Embedded(e) == [e EXCEPT !.wraps = @ - 1]

\* find_embedded_exception with a single look at self.ex
FindEmbeddedOnce(e) ==
    IF Embedded(e) = NoExc THEN Exc("RuntimeError", None) ELSE Embedded(e)

\* VisitError.find_embedded_exception
RECURSIVE FindEmbeddedException(_)
FindEmbeddedException(e) ==
    IF Embedded(e).wraps > 0 THEN FindEmbeddedException(Embedded(e))
    ELSE IF Embedded(e) = NoExc THEN Exc("RuntimeError", None)
    ELSE Embedded(e)

\* What a raising callback or hook does: it raises an exception of its own
\* (k = 0), or it starts a visit with an ASTVisitor, whose visit() has no handler,
\* and a callback of that visit does the same, down to k visits one inside the
\* other, the innermost callback raising the exception
RaiseKinds == [raise |-> "ValueError", raise_sce |-> "SyntaxCheckerError"]
RaiseChoices == DOMAIN RaiseKinds

\* the exception the innermost callback constructs
BaseExc(c) == Exc(RaiseKinds[c], None)

\* _visit, lines 441-447 and 543-550, of the visits the callback starts: each
\* wraps what its callback raised in a VisitError
RECURSIVE NestedVisit(_, _)
NestedVisit(e, k) == IF k = 0 THEN e ELSE VisitError(NestedVisit(e, k - 1))

\* the exception that leaves a raising callback
Thrown(c, k) == NestedVisit(BaseExc(c), k)

----------------------------------------------------------------------------
(* The visitor object *)

\* StateMachineChecker._current_state when it is None (state names are not empty)
NoState == ""

Flags0 ==
    [exclusive_visit |-> FALSE, minimal_depth |-> FALSE, debug_visit |-> FALSE,
     no_children_visits |-> FALSE, reverse_visit |-> FALSE, ignore_visited |-> FALSE]

\* ASTVisitor.__init__, SyntaxChecker.__init__ / _initialize and
\* StateMachineChecker.__init__: the attributes of a new visitor of class cls
NewVisitor(cls, pre, post, hlen, txt) ==
    [cls |-> cls,
     visiting |-> FALSE, dont_visit |-> FALSE, visit_depth |-> 0,
     visit_history |-> <<>>, flags |-> Flags0, history_len |-> hlen,
     hooks |-> <<>>, visited_nodes |-> {},
     not_allowed |-> {}, allowed_visits |-> {},
     not_allowed_matches |-> {}, allowed_matches |-> {},
     pre_table |-> pre, post_table |-> post,
     text |-> txt, pass_run |-> FALSE,
     collected_globals |-> <<>>, dicts |-> << <<>> >>, collected_locals |-> 1,
     collected_scopes |-> <<>>, scope_stack |-> <<>>,
     state_data |-> <<>>, current_state |-> NoState,
     spare |-> 0, exc |-> NoExc, log |-> <<>>]

IsChecker(v) == v.cls \in {"SyntaxChecker", "StateMachineChecker"}

\* the log of what the visitor did: event, node, name (callback key, slot or flag)
\* and, for the end of an activation of _visit, the value it returned
Ev(e, n, a) == [e |-> e, n |-> n, a |-> a, r |-> NoneV]
Logged(v, e, n, a) == [v EXCEPT !.log = Append(@, Ev(e, n, a))]

\* VisitError("cannot alter ... prefixes while visiting"): ex is the message
PrefixError == VisitError(Exc("str", None))

\* ExclusiveASTVisitor.add_disallowed_prefixes
AddDisallowedPrefixes(v, prefixes) ==
    IF v.visiting THEN Raise(v, PrefixError)
    ELSE [v EXCEPT !.not_allowed = @ \cup prefixes]

\* ExclusiveASTVisitor.add_allowed_prefixes
AddAllowedPrefixes(v, prefixes) ==
    IF v.visiting THEN Raise(v, PrefixError)
    ELSE [v EXCEPT !.allowed_visits = @ \cup prefixes]

\* ASTVisitor.pause_visiting
PauseVisiting(v) == [v EXCEPT !.dont_visit = TRUE]

\* ASTVisitor.resume_visiting
ResumeVisiting(v) == [v EXCEPT !.dont_visit = FALSE]
\* ASTVisitor.set_flag / clear_flag
SetFlag(v, f) == [Logged(v, "set_flag", None, f) EXCEPT !.flags[f] = TRUE]
ClearFlag(v, f) == [v EXCEPT !.flags[f] = FALSE]


----------------------------------------------------------------------------
(* SyntaxChecker: error construction *)

SYNTAX_ERR_GLOBAL_NAME_REDEFINED == 10
SYNTAX_ERR_LOCAL_NAME_REDEFINED == 11
SYNTAX_ERR_INVALID_IDENTIFIER == 12

NoPos == -1      \* the node has no "_tx_position" entry
PosNone == -2    \* the entry holds None

\* txt.split("\n"), as the lengths of the lines
RECURSIVE SplitLens(_, _, _)
SplitLens(txt, i, cur) ==
    IF i > Len(txt) THEN <<cur>>
    ELSE IF txt[i] = "\n" THEN <<cur>> \o SplitLens(txt, i + 1, 0)
    ELSE SplitLens(txt, i + 1, cur + 1)

\* the loop of find_node_line_in_text over the lines; <<>> is None
RECURSIVE FindLineLoop(_, _, _, _)
FindLineLoop(lens, idx, current_pos, position) ==
    IF idx > Len(lens) THEN <<>>
    ELSE IF position = PosNone THEN <<>>
    ELSE IF current_pos + lens[idx] + 1 < position
         THEN FindLineLoop(lens, idx + 1, current_pos + lens[idx] + 1, position)
    ELSE <<idx, IF current_pos # 0 THEN position % current_pos ELSE 0>>

\* SyntaxChecker.find_node_line_in_text
FindNodeLineInText(txt, position) == FindLineLoop(SplitLens(txt, 1, 0), 1, 0, position)

\* SyntaxChecker.get_error (through find_node_line): the exception object that
\* results, or the exception raised while building it
GetError(v, h, node, code) ==
    IF h[node].pos = NoPos THEN Exc("KeyError", None)
    ELSE IF FindNodeLineInText(v.text, h[node].pos) = <<>> THEN Exc("TypeError", None)
    ELSE Exc("SyntaxCheckerError", code)

\* SyntaxChecker.get_error_from_code, for a registered code
GetErrorFromCode(v, h, node, code) == GetError(v, h, node, code)

----------------------------------------------------------------------------
(* SyntaxChecker: scopes and symbols.  The locals tables are objects:      *)
(* v.dicts[i] is the content of table i, and _collected_locals, the scope  *)
(* stack and the archive hold table identities                             *)

Locals(v) == v.dicts[v.collected_locals]

\* location in self._collected_scopes
InScopes(v, loc) == \E i \in 1..Len(v.collected_scopes) : v.collected_scopes[i].loc = loc
ScopeOf(v, loc) ==
    v.collected_scopes[CHOOSE i \in 1..Len(v.collected_scopes) : v.collected_scopes[i].loc = loc]

\* self._collected_scopes[enter_loc] = [location, table]
ScopesPut(sc, enter_loc, location, t) ==
    IF \E i \in 1..Len(sc) : sc[i].loc = enter_loc
    THEN [i \in 1..Len(sc) |->
            IF sc[i].loc = enter_loc
            THEN [loc |-> enter_loc, end_loc |-> location, tab |-> t] ELSE sc[i]]
    ELSE Append(sc, [loc |-> enter_loc, end_loc |-> location, tab |-> t])

\* SyntaxChecker._enter_scope
EnterScope(v, location) ==
    IF location # None /\ InScopes(v, location)
    THEN [v EXCEPT !.scope_stack = Append(@, [loc |-> location, tab |-> v.collected_locals]),
                   !.collected_locals = ScopeOf(v, location).tab]
    ELSE IF location # None
    THEN [v EXCEPT !.scope_stack = Append(@, [loc |-> location, tab |-> v.collected_locals]),
                   !.dicts = Append(@, <<>>),
                   !.collected_locals = Len(v.dicts) + 1]
    ELSE v

\* _exit_scope that archives the closing locals whether or not a pass has completed
ExitScopeArchives(v, location) ==
    IF v.scope_stack = <<>> THEN Raise(v, Exc("IndexError", None))
    ELSE LET top == v.scope_stack[Len(v.scope_stack)]
             old_local_scope == Len(v.dicts) + 1
         IN [v EXCEPT !.dicts = Append(@, Locals(v)),
                      !.scope_stack = Prefix(@, Len(@) - 1),
                      !.collected_locals = top.tab,
                      !.collected_scopes = ScopesPut(@, top.loc, location, old_local_scope)]
\* SyntaxChecker._exit_scope
ExitScope(v, location) ==
    IF v.pass_run = FALSE
    THEN IF v.scope_stack = <<>> THEN Raise(v, Exc("IndexError", None))
         ELSE LET top == v.scope_stack[Len(v.scope_stack)]
                  old_local_scope == Len(v.dicts) + 1
              IN [v EXCEPT !.dicts = Append(@, Locals(v)),
                           !.scope_stack = Prefix(@, Len(@) - 1),
                           !.collected_locals = top.tab,
                           !.collected_scopes = ScopesPut(@, top.loc, location, old_local_scope)]
    ELSE IF v.scope_stack = <<>> THEN Raise(v, Exc("IndexError", None))
         ELSE [v EXCEPT !.scope_stack = Prefix(@, Len(@) - 1),
                        !.collected_locals = v.scope_stack[Len(v.scope_stack)].tab]

\* SyntaxChecker.is_valid_identifier: no checker class here has an IDENTIFIER_REGEX
IsValidIdentifier(v, identifier) == TRUE

\* _collect_symbol that overwrites on every redefinition
CollectSymbolOverwrite(v, h, name, node, globl, ignore_redefine) ==
    IF Len(v.scope_stack) = 0 \/ globl
    THEN [v EXCEPT !.collected_globals = DPut(@, name, node)]
    ELSE [v EXCEPT !.dicts[v.collected_locals] = DPut(@, name, node)]

\* _collect_symbol that takes the global table only when no scope is open
CollectSymbolByDepth(v, h, name, node, globl, ignore_redefine) ==
    IF Len(v.scope_stack) = 0
    THEN IF ~DHas(v.collected_globals, name)
         THEN [v EXCEPT !.collected_globals = DPut(@, name, node)] ELSE v
    ELSE IF ~DHas(Locals(v), name)
         THEN [v EXCEPT !.dicts[v.collected_locals] = DPut(@, name, node)] ELSE v
\* _collect_symbol in which a redefinition with ignore_redefine replaces the node
CollectSymbolLastWins(v, h, name, node, globl, ignore_redefine) ==
    IF Len(v.scope_stack) = 0 \/ globl
    THEN IF DHas(v.collected_globals, name) /\ ~ignore_redefine
         THEN Raise(v, GetErrorFromCode(v, h, node, SYNTAX_ERR_GLOBAL_NAME_REDEFINED))
         ELSE [v EXCEPT !.collected_globals = DPut(@, name, node)]
    ELSE IF DHas(Locals(v), name) /\ ~ignore_redefine
         THEN Raise(v, GetErrorFromCode(v, h, node, SYNTAX_ERR_LOCAL_NAME_REDEFINED))
         ELSE [v EXCEPT !.dicts[v.collected_locals] = DPut(@, name, node)]
\* SyntaxChecker._collect_symbol
CollectSymbol(v, h, name, node, globl, ignore_redefine) ==
    IF ~IsValidIdentifier(v, name)
    THEN Raise(v, GetErrorFromCode(v, h, node, SYNTAX_ERR_INVALID_IDENTIFIER))
    ELSE IF Len(v.scope_stack) = 0 \/ globl
    THEN IF DHas(v.collected_globals, name) /\ ~ignore_redefine
         THEN Raise(v, GetErrorFromCode(v, h, node, SYNTAX_ERR_GLOBAL_NAME_REDEFINED))
         ELSE IF ~DHas(v.collected_globals, name)
         THEN [v EXCEPT !.collected_globals = DPut(@, name, node)]
         ELSE v
    ELSE IF DHas(Locals(v), name) /\ ~ignore_redefine
         THEN Raise(v, GetErrorFromCode(v, h, node, SYNTAX_ERR_LOCAL_NAME_REDEFINED))
         ELSE IF ~DHas(Locals(v), name)
         THEN [v EXCEPT !.dicts[v.collected_locals] = DPut(@, name, node)]
         ELSE v

\* the loop of scoped_symbol_lookup over self._scope_stack, from its first entry
RECURSIVE StackLookup(_, _, _)
StackLookup(v, name, i) ==
    IF i > Len(v.scope_stack) THEN None
    ELSE IF DHas(v.dicts[v.scope_stack[i].tab], name)
         THEN DGet(v.dicts[v.scope_stack[i].tab], name)
    ELSE StackLookup(v, name, i + 1)

\* a lookup that asks the global table first
LookupGlobalsFirst(v, name) ==
    IF DHas(v.collected_globals, name) THEN DGet(v.collected_globals, name)
    ELSE IF DHas(Locals(v), name) THEN DGet(Locals(v), name)
    ELSE StackLookup(v, name, 1)

\* SyntaxChecker.scoped_symbol_lookup
ScopedSymbolLookup(v, name) ==
    IF DHas(Locals(v), name) THEN DGet(Locals(v), name)
    ELSE IF StackLookup(v, name, 1) # None THEN StackLookup(v, name, 1)
    ELSE IF DHas(v.collected_globals, name) THEN DGet(v.collected_globals, name)
    ELSE None

\* SyntaxChecker.report_symbols: scope name -> symbol name -> node
ReportSymbols(v) ==
    [key \in {None} \cup {v.collected_scopes[i].loc : i \in 1..Len(v.collected_scopes)} |->
        IF key = None THEN DFun(v.collected_globals)
        ELSE DFun(v.dicts[ScopeOf(v, key).tab])]


----------------------------------------------------------------------------
(* The visited trees *)

\* The tree of the generic passes:
\*   1 Prog (root)  a -> 2, b -> [4 .. 3 + ListLen], c -> "s"
\*   2 Blk          x -> 3, y -> "s"
\*   3 Id           (no slots)
\*   4.. Stmt       v -> "s", w -> None
\* followed by NumSpare detached Id nodes, as a callback would construct them
TreeSize == 3 + ListLen
Elems == [i \in 1..ListLen |-> 3 + i]
Spares == (TreeSize + 1)..(TreeSize + NumSpare)
Nodes == 1..(TreeSize + NumSpare)

GenericTree ==
    [n \in Nodes |->
        IF n = 1 THEN NewNode("Prog", TRUE, <<"a", "b", "c">>,
                              [a |-> One(2), b |-> Many(Elems), c |-> One(STR)], None, NoKey)
        ELSE IF n = 2 THEN NewNode("Blk", FALSE, <<"x", "y">>,
                              [x |-> One(3), y |-> One(STR)], 1, "a")
        ELSE IF n = 3 THEN NewNode("Id", FALSE, <<>>, <<>>, 2, "x")
        ELSE IF n <= TreeSize THEN NewNode("Stmt", FALSE, <<"v", "w">>,
                                               [v |-> One(STR), w |-> NoneV], 1, "b")
        ELSE NewNode("Id", FALSE, <<>>, <<>>, None, NoKey)]

\* isinstance(node, ScopeMixin): the kinds that carry the scope marker
ScopeKinds == {"Blk", "Stmt"}
IsScopeNode(h, x) == IsNode(x) /\ h[x].kind \in ScopeKinds

----------------------------------------------------------------------------
(* Registered callbacks.  plan.pre[n] and plan.post[n] name what the        *)
(* callback that is dispatched for node n does (decorators included);      *)
(* plan.col[n] is the symbol a checker callback collects for n             *)

PreChoice(pl, x) == IF IsNode(x) THEN pl.pre[x] ELSE "none"
PostChoice(pl, x) == IF IsNode(x) THEN pl.post[x] ELSE "keep"
NoCollect == [when |-> "never", name |-> "", globl |-> FALSE, ignore |-> FALSE]
ColChoice(pl, x) == IF IsNode(x) THEN pl.col[x] ELSE NoCollect

\* AutoCollect-style collection made by a checker callback
PlanCollect(v, h, pl, x, when) ==
    IF IsChecker(v) /\ ColChoice(pl, x).when = when
    THEN CollectSymbol(v, h, ColChoice(pl, x).name, x, ColChoice(pl, x).globl,
                       ColChoice(pl, x).ignore)
    ELSE v

\* what a visitPre_<key> method of behaviour c does after its collection left v1
PreEffect(v1, c, k) ==
    IF Raised(v1) THEN v1
    ELSE IF c \in RaiseChoices THEN Raise(v1, Thrown(c, k))
    ELSE IF c = "pause" THEN PauseVisiting(v1)
    ELSE IF c = "add_allowed" THEN AddAllowedPrefixes(v1, {"a"})
    ELSE IF c = "add_disallowed" THEN AddDisallowedPrefixes(v1, {"a"})
    ELSE IF c = "reverse" THEN SetFlag(v1, "reverse_visit")       \* @reverse_visit_order
    ELSE IF c = "nochild" THEN SetFlag(v1, "no_children_visits")  \* @no_child_visits
    ELSE IF c = "reverse_nochild"
         THEN SetFlag(SetFlag(v1, "reverse_visit"), "no_children_visits")
    ELSE v1

\* a registered visitPre_<key> method applied to x
GenericPre(v, h, pl, x, key) ==
    PreEffect(PlanCollect(Logged(v, "pre", x, key), h, pl, x, "pre"), PreChoice(pl, x),
              pl.nest)

\* the nodes a callback returns in place of x: the next unused detached nodes
Fresh(v, k) == [i \in 1..k |-> TreeSize + v.spare + i]
Took(v, k) == [v EXCEPT !.spare = @ + k]

\* what a visit_<key> method of behaviour c does, and returns, after its
\* collection left v1
PostEffect(v1, c, k, x) ==
    IF Raised(v1) THEN [v |-> v1, ret |-> NoneV]
    ELSE IF c \in RaiseChoices THEN [v |-> Raise(v1, Thrown(c, k)), ret |-> NoneV]
    ELSE IF c = "pause" THEN [v |-> PauseVisiting(v1), ret |-> One(x)]
    ELSE IF c = "delete" THEN [v |-> v1, ret |-> NoneV]
    ELSE IF c = "replace" THEN [v |-> Took(v1, 1), ret |-> One(Fresh(v1, 1)[1])]
    ELSE IF c = "splice0" THEN [v |-> v1, ret |-> Many(<<>>)]
    ELSE IF c = "splice1" THEN [v |-> Took(v1, 1), ret |-> Many(Fresh(v1, 1))]
    ELSE IF c = "splice2" THEN [v |-> Took(v1, 2), ret |-> Many(Fresh(v1, 2))]
    ELSE IF c = "setrev" THEN [v |-> SetFlag(v1, "reverse_visit"), ret |-> One(x)]
    ELSE [v |-> v1, ret |-> One(x)]

\* a registered visit_<key> method applied to x: the visitor and the returned value
GenericPost(v, h, pl, x, key) ==
    PostEffect(PlanCollect(Logged(v, "post", x, key), h, pl, x, "post"), PostChoice(pl, x),
               pl.nest, x)

\* detached nodes the callbacks of a plan ask for
Demand(c) == IF c \in {"replace", "splice1"} THEN 1 ELSE IF c = "splice2" THEN 2 ELSE 0
RECURSIVE TotalDemand(_, _)
TotalDemand(pl, n) == IF n = 0 THEN 0 ELSE Demand(pl.post[n]) + TotalDemand(pl, n - 1)


----------------------------------------------------------------------------
(* The state-machine example: its trees and StateMachineChecker *)

\* the text of the leaf values -1, -2, ...
Strings == <<"s", "go", "stop", "beep", "A", "B">>
StrVal(x) == Strings[-x]
Leaf(str) == -(CHOOSE i \in 1..Len(Strings) : Strings[i] = str)

ERR1 == 1    \* "err1": event redeclared
ERR2 == 2    \* "err2": event has no effect

\* the source text the positions of the nodes refer to
SMText == <<"c", "c", "\n", "c", "c", "c", "\n", "c", "c">>

SMNode(k, isroot, nm, sl, p, pk, at) == [NewNode(k, isroot, nm, sl, p, pk) EXCEPT !.pos = at]
Named(k, str, p, pk, at) ==
    SMNode(k, FALSE, <<"name", "code">>, [name |-> One(Leaf(str)), code |-> One(STR)], p, pk, at)
StateNode(str, trans, at) ==
    SMNode("State", FALSE, <<"name", "actions", "transitions">>,
           [name |-> One(Leaf(str)), actions |-> Many(<<>>), transitions |-> Many(trans)],
           1, "states", at)
TransNode(ev, to, p, at) ==
    SMNode("Transition", FALSE, <<"event", "to_state">>,
           [event |-> One(ev), to_state |-> One(to)], p, "transitions", at)

\* events {go, stop}, commands {beep}, states A (node 5) and B (node 6);
\* "ok":       A: go => B            B: stop => A
\* "selfloop": A: go => A            B: stop => A
\* "dup":      A: go => B, go => A   B: stop => A
\* "reuse":    A: go => B            B: go => A
SMScenarios == {"ok", "selfloop", "dup", "reuse"}
SMTree(sc) ==
    [n \in 1..(IF sc = "dup" THEN 9 ELSE 8) |->
        IF n = 1 THEN SMNode("StateMachine", TRUE,
                             <<"events", "resetEvents", "commands", "states">>,
                             [events |-> Many(<<2, 3>>), resetEvents |-> Many(<<>>),
                              commands |-> Many(<<4>>), states |-> Many(<<5, 6>>)],
                             None, NoKey, 0)
        ELSE IF n = 2 THEN Named("Event", "go", 1, "events", 1)
        ELSE IF n = 3 THEN Named("Event", "stop", 1, "events", 2)
        ELSE IF n = 4 THEN Named("Command", "beep", 1, "commands", 3)
        ELSE IF n = 5 THEN StateNode("A", IF sc = "dup" THEN <<7, 9>> ELSE <<7>>, 4)
        ELSE IF n = 6 THEN StateNode("B", <<8>>, 6)
        ELSE IF n = 7 THEN TransNode(2, IF sc = "selfloop" THEN 5 ELSE 6, 5, 5)
        ELSE IF n = 8 THEN TransNode(IF sc = "reuse" THEN 2 ELSE 3, 5, 6, 7)
        ELSE TransNode(2, 5, 5, 8)]

\* node.name, node.event.name, node.to_state.name
NameOf(h, n) == StrVal(h[n].slots["name"].val[1])
EventOf(h, n) == h[n].slots["event"].val[1]
ToStateOf(h, n) == h[n].slots["to_state"].val[1]

\* StateMachineChecker.visitPre_State, under @enter_scope
VisitPre_State(v, h, n) ==
    LET v1 == EnterScope(v, n)
    IN [v1 EXCEPT !.current_state = NameOf(h, n),
                  !.state_data = DPut(@, NameOf(h, n), [actions |-> <<>>, transitions |-> <<>>])]

\* visitPre_Transition, lines 72-77, once the event is collected (v1), and the
\* flag @no_child_visits sets when the method has returned
CheckNoEffect(v1, h, n) ==
    IF Raised(v1) THEN v1
    ELSE IF NameOf(h, ToStateOf(h, n)) = v1.current_state
    THEN Raise(v1, GetErrorFromCode(v1, h, n, ERR2))
    ELSE SetFlag(v1, "no_children_visits")

\* StateMachineChecker.visitPre_Transition, under @no_child_visits
VisitPre_Transition(v, h, n) ==
    IF ScopedSymbolLookup(v, NameOf(h, EventOf(h, n))) # None
    THEN Raise(v, GetErrorFromCode(v, h, n, ERR1))
    ELSE CheckNoEffect(CollectSymbol(v, h, NameOf(h, EventOf(h, n)), EventOf(h, n),
                                     FALSE, FALSE), h, n)

\* visit_State without the @exit_scope decorator
Visit_StateNoExit(v, h, n) == [v |-> v, ret |-> One(n)]

\* StateMachineChecker.visit_State, under @exit_scope
Visit_State(v, h, n) == [v |-> ExitScope(v, n), ret |-> One(n)]

\* StateMachineChecker.visit_Transition
Visit_Transition(v, h, n) ==
    IF v.current_state = NoState
    THEN [v |-> Raise(v, Exc("TypeError", None)), ret |-> NoneV]
    ELSE LET data == DGet(v.state_data, v.current_state)
             transitions == DPut(data.transitions, NameOf(h, EventOf(h, n)),
                                 NameOf(h, ToStateOf(h, n)))
         IN [v |-> [v EXCEPT !.state_data =
                        DPut(@, v.current_state, [data EXCEPT !.transitions = transitions])],
             ret |-> One(n)]

\* StateMachineChecker.visit_Command
Visit_Command(v, h, n) ==
    IF v.current_state # NoState
    THEN LET data == DGet(v.state_data, v.current_state)
         IN [v |-> [v EXCEPT !.state_data =
                        DPut(@, v.current_state,
                             [data EXCEPT !.actions = Append(@, NameOf(h, n))])],
             ret |-> One(n)]
    ELSE [v |-> v, ret |-> One(n)]

\* the visitPre_<Kind> / visit_<Kind> methods of StateMachineChecker
SMPreTable == {"State", "Transition"}
SMPostTable == {"State", "Event", "Transition", "Command"}
SMPre(v, h, x, key) ==
    IF key = "State" THEN VisitPre_State(Logged(v, "pre", x, key), h, x)
    ELSE VisitPre_Transition(Logged(v, "pre", x, key), h, x)
SMPost(v, h, x, key) ==
    IF key = "State" THEN Visit_State(Logged(v, "post", x, key), h, x)
    ELSE IF key = "Transition" THEN Visit_Transition(Logged(v, "post", x, key), h, x)
    ELSE IF key = "Command" THEN Visit_Command(Logged(v, "post", x, key), h, x)
    ELSE [v |-> Logged(v, "post", x, key), ret |-> One(x)]

\* StateMachineChecker.states, get_state_transitions
States(v) == DKeys(v.state_data)
GetStateTransitions(v, name) == DFun(DGet(v.state_data, name).transitions)


----------------------------------------------------------------------------
(* ASTVisitor: dispatch of the callbacks *)

\* the registered visitPre_<key> / visit_<key> method
CallPre(v, h, pl, x, key) ==
    IF v.cls = "StateMachineChecker" THEN SMPre(v, h, x, key) ELSE GenericPre(v, h, pl, x, key)
CallPost(v, h, pl, x, key) ==
    IF v.cls = "StateMachineChecker" THEN SMPost(v, h, x, key) ELSE GenericPost(v, h, pl, x, key)

\* ASTVisitor._visit_pre_default
PreDefault(v, h, pl, x) ==
    IF "Default" \in v.pre_table THEN CallPre(v, h, pl, x, "Default") ELSE v

\* SyntaxChecker._visit_pre_default, the override of ASTVisitor._visit_pre_default
VisitPreDefault(v, h, pl, x) ==
    PreDefault(IF IsChecker(v) /\ IsScopeNode(h, x) THEN EnterScope(v, x) ELSE v, h, pl, x)

\* ASTVisitor._visit_fn_pre
VisitFnPre(v, h, pl, x) ==
    LET cls_name == KindOf(h, x)
    IN IF cls_name \notin v.pre_table THEN VisitPreDefault(v, h, pl, x)
       ELSE IF v.flags.ignore_visited /\ x \in v.visited_nodes THEN v
       ELSE CallPre(IF v.flags.minimal_depth /\ cls_name \in v.post_table
                    THEN SetFlag(v, "no_children_visits") ELSE v,
                    h, pl, x, cls_name)

\* a registered hook: what it does ("log", or a way of raising) and, when it
\* raises, under how many visits it started
Hook(does, nest) == [does |-> does, nest |-> nest]

\* ASTVisitor.add_visit_hook
AddVisitHook(v, node_cls_name, method) ==
    [v EXCEPT !.hooks = DPut(@, node_cls_name,
                             (IF DHas(@, node_cls_name) THEN DGet(@, node_cls_name) ELSE {})
                             \cup {method})]

\* hook(node)
CallHook(v, hook, cls_name, x) ==
    IF hook.does \in RaiseChoices
    THEN Raise(Logged(v, "hook", x, cls_name), Thrown(hook.does, hook.nest))
    ELSE Logged(v, "hook", x, cls_name)

\* the loop over self._hooks[cls_name], the hooks taken in some order
RECURSIVE CallHooks(_, _, _, _)
CallHooks(v, todo, cls_name, x) ==
    IF todo = {} \/ Raised(v) THEN v
    ELSE LET hook == CHOOSE m \in todo : TRUE
         IN CallHooks(CallHook(v, hook, cls_name, x), todo \ {hook}, cls_name, x)

\* _call_visit_hooks that runs the hooks only of kinds with a visit_<Kind> method
CallVisitHooksOfMethods(v, cls_name, x) ==
    IF cls_name \in v.post_table /\ DHas(v.hooks, cls_name)
    THEN CallHooks(v, DGet(v.hooks, cls_name), cls_name, x)
    ELSE v

\* ASTVisitor._call_visit_hooks
CallVisitHooks(v, cls_name, x) ==
    IF DHas(v.hooks, cls_name) THEN CallHooks(v, DGet(v.hooks, cls_name), cls_name, x) ELSE v

\* ASTVisitor._visit_default
PostDefault(v, h, pl, x) ==
    IF "Default" \in v.post_table THEN CallPost(v, h, pl, x, "Default")
    ELSE [v |-> v, ret |-> One(x)]

\* SyntaxChecker._visit_default, lines 105-107, on the result r of the base method
DefaultExit(r, h, x) ==
    IF ~Raised(r.v) /\ IsChecker(r.v) /\ IsScopeNode(h, x)
    THEN [r EXCEPT !.v = ExitScope(r.v, x)]
    ELSE r

\* SyntaxChecker._visit_default, the override of ASTVisitor._visit_default
VisitDefault(v, h, pl, x) == DefaultExit(PostDefault(v, h, pl, x), h, x)

\* _visit_fn_post, lines 309 and 322: the hooks run when the method has returned r
ThenHooks(r, cls_name, x) ==
    IF Raised(r.v) THEN r ELSE [r EXCEPT !.v = CallVisitHooks(r.v, cls_name, x)]

\* _visit_fn_post without the test of the visited set
VisitFnPostAgain(v, h, pl, x) ==
    IF KindOf(h, x) \notin v.post_table
    THEN ThenHooks(VisitDefault(v, h, pl, x), KindOf(h, x), x)
    ELSE ThenHooks(CallPost(IF v.flags.ignore_visited
                            THEN [v EXCEPT !.visited_nodes = @ \cup {x}] ELSE v,
                            h, pl, x, KindOf(h, x)),
                   KindOf(h, x), x)
\* ASTVisitor._visit_fn_post: the visitor and the returned value
VisitFnPost(v, h, pl, x) ==
    IF KindOf(h, x) \notin v.post_table
    THEN ThenHooks(VisitDefault(v, h, pl, x), KindOf(h, x), x)
    ELSE IF v.flags.ignore_visited /\ x \in v.visited_nodes
    THEN [v |-> v, ret |-> One(x)]
    ELSE ThenHooks(CallPost(IF v.flags.ignore_visited
                            THEN [v EXCEPT !.visited_nodes = @ \cup {x}] ELSE v,
                            h, pl, x, KindOf(h, x)),
                   KindOf(h, x), x)

\* ASTVisitor.get_last_visited on a history that is not empty: the visitor and the
\* returned entry
GetLastVisited(v) ==
    LET last_visit == Head(v.visit_history)
    IN [v |-> [v EXCEPT !.visit_history = Append(Tail(@), last_visit)],
        ret |-> last_visit]

\* ASTVisitor._store_visit
StoreVisit(v, entry) ==
    IF v.history_len = 0 THEN v
    ELSE [v EXCEPT !.visit_history =
              Append(IF Len(@) = v.history_len THEN Tail(@) ELSE @, entry)]

\* re.compile(pattern).match(name) for the patterns used here, which are literal
\* and as long as the slot names they are matched against
Match(pattern, name) == pattern = name

\* _check_visit_allowed that applies the disallowed patterns in exclusive mode too
CheckVisitAllowedBoth(v, name) ==
    IF v.cls # "ExclusiveASTVisitor" THEN TRUE
    ELSE /\ v.flags.exclusive_visit => \E allowed \in v.allowed_matches : Match(allowed, name)
         /\ ~ \E disallowed \in v.not_allowed_matches : Match(disallowed, name)
\* ASTVisitor._check_visit_allowed and its override in ExclusiveASTVisitor
CheckVisitAllowed(v, name) ==
    IF v.cls # "ExclusiveASTVisitor" THEN TRUE
    ELSE IF v.flags.exclusive_visit
    THEN \E allowed \in v.allowed_matches : Match(allowed, name)
    ELSE ~ \E disallowed \in v.not_allowed_matches : Match(disallowed, name)

\* ExclusiveASTVisitor.__init__
NewExclusiveVisitor(disallowed, exclusive, pre, post) ==
    LET v == AddDisallowedPrefixes(
                 [NewVisitor("ExclusiveASTVisitor", pre, post, 0, <<>>)
                     EXCEPT !.flags.exclusive_visit = exclusive], disallowed)
    IN IF exclusive
       THEN [v EXCEPT !.flags.minimal_depth = TRUE, !.allowed_visits = post]
       ELSE v

\* ExclusiveASTVisitor.visit, lines 42-47: the patterns are compiled
CompilePrefixes(v) ==
    IF v.cls = "ExclusiveASTVisitor"
    THEN [v EXCEPT !.not_allowed_matches = v.not_allowed,
                   !.allowed_matches = v.allowed_visits]
    ELSE v

----------------------------------------------------------------------------
(* ASTVisitor._visit: the processing of a sequence slot after its elements *)

\* ApplySplices with the running insertion offset left at its first value
RECURSIVE ApplySplicesFixedOffset(_, _, _, _, _, _, _)
ApplySplicesFixedOffset(h, owner, attr_name, attr_value, mods, k, insertion_offset) ==
    IF k > Len(mods) THEN [h |-> h, av |-> attr_value]
    ELSE LET idx == mods[k].idx - 1
             to_insert == mods[k].res.val
             before == Prefix(attr_value, idx + insertion_offset)
             after == SubSeqFrom(attr_value, idx + insertion_offset + 2)
         IN ApplySplicesFixedOffset(Adopt(h, owner, attr_name, to_insert), owner, attr_name,
                                    before \o to_insert \o after, mods, k + 1,
                                    insertion_offset)

\* the loop over modified_statements (lines 501-518); mods[k] = [idx, res],
\* idx counted from 1
RECURSIVE ApplySplices(_, _, _, _, _, _, _)
ApplySplices(h, owner, attr_name, attr_value, mods, k, insertion_offset) ==
    IF k > Len(mods) THEN [h |-> h, av |-> attr_value]
    ELSE LET idx == mods[k].idx - 1
             to_insert == mods[k].res.val
             before == Prefix(attr_value, idx + insertion_offset)
             after == SubSeqFrom(attr_value, idx + insertion_offset + 2)
         IN ApplySplices(Adopt(h, owner, attr_name, to_insert), owner, attr_name,
                         before \o to_insert \o after, mods, k + 1,
                         insertion_offset + Len(to_insert) - 1)

\* ApplyDeletes with the running deletion offset left at its first value
RECURSIVE ApplyDeletesFixedOffset(_, _, _, _, _)
ApplyDeletesFixedOffset(h, attr_value, dels, k, deletion_offset) ==
    IF k > Len(dels) THEN [h |-> h, av |-> attr_value]
    ELSE LET pos == dels[k] + deletion_offset
         IN IF pos < 1 \/ pos > Len(attr_value)
            THEN ApplyDeletesFixedOffset(h, attr_value, dels, k + 1, deletion_offset)
            ELSE ApplyDeletesFixedOffset(
                   IF IsNode(attr_value[pos]) THEN SetParent(h, attr_value[pos], None) ELSE h,
                   Prefix(attr_value, pos - 1) \o SubSeqFrom(attr_value, pos + 1),
                   dels, k + 1, deletion_offset)

\* the loop over to_delete (lines 520-534); an index out of range raises an
\* exception that the loop swallows
RECURSIVE ApplyDeletes(_, _, _, _, _)
ApplyDeletes(h, attr_value, dels, k, deletion_offset) ==
    IF k > Len(dels) THEN [h |-> h, av |-> attr_value]
    ELSE LET pos == dels[k] + deletion_offset
         IN IF pos < 1 \/ pos > Len(attr_value)
            THEN ApplyDeletes(h, attr_value, dels, k + 1, deletion_offset)
            ELSE ApplyDeletes(
                   IF IsNode(attr_value[pos]) THEN SetParent(h, attr_value[pos], None) ELSE h,
                   Prefix(attr_value, pos - 1) \o SubSeqFrom(attr_value, pos + 1),
                   dels, k + 1, deletion_offset - 1)

\* lines 501-536: splices, then deletions, then setattr(node, attr_name, attr_value)
FinishSlot(h, owner, attr_name, attr_value, mods, dels) ==
    LET s == ApplySplices(h, owner, attr_name, attr_value, mods, 1, 0)
        d == ApplyDeletes(s.h, s.av, dels, 1, 0)
    IN SetAttr(d.h, owner, attr_name, Many(d.av))


----------------------------------------------------------------------------
(* ASTVisitor._visit as a machine: one frame per activation.               *)
(*   pc = "pre"          about to run lines 438-475                        *)
(*   pc = "slots"        in the loop over visit_list, at vlist[si]         *)
(*   pc = "wait_scalar"  in _visit_and_modify(node, attr_name)             *)
(*   pc = "elems"        in the loop over the elements of a sequence slot  *)
(*   pc = "wait_elem"    in _visit_and_modify(statement)                   *)
(*   pc = "post"         about to run lines 543-560                        *)

\* a visit list that leaves every slot out
VisitListEmpty(v, h, x) == <<>>

\* _visit, lines 471-474: the visit list of a node
VisitList(v, h, x) ==
    IF v.flags.reverse_visit THEN Reverse(h[x].names) ELSE h[x].names

\* ConsumeReverse with the flag left set
ConsumeReverseKeepsFlag(v) == v

\* _visit, lines 473-475: the reverse flag is cleared when it is used
ConsumeReverse(v) ==
    IF v.flags.reverse_visit THEN ClearFlag(v, "reverse_visit") ELSE v

NewFrame(x) ==
    [node |-> x, pc |-> "pre", vlist |-> <<>>, si |-> 1,
     av |-> <<>>, idx |-> 1, mods |-> <<>>, dels |-> <<>>]

Top == stack[Len(stack)]
SetTop(f) == [stack EXCEPT ![Len(stack)] = f]
Running == call.status = "running" /\ stack # <<>>

\* visit() without the handler of SyntaxChecker.visit
VisitRaisesWrapped(v, e) == e

\* how an exception raised under visit() reaches the caller: ASTVisitor.visit has no
\* handler, SyntaxChecker.visit re-raises the SyntaxCheckerError a VisitError embeds
VisitRaises(v, e) ==
    IF IsChecker(v) /\ e.wraps = 1 /\ e.type = "SyntaxCheckerError"
    THEN [e EXCEPT !.wraps = 0]
    ELSE e

\* the exception e leaves the innermost _visit and, uncaught, every frame up to the caller
Escapes(v, e) ==
    /\ vis' = [v EXCEPT !.exc = NoExc]
    /\ stack' = <<>>
    /\ retval' = NoneV
    /\ call' = [call EXCEPT !.status = "raised", !.exc = VisitRaises(v, e)]
    /\ UNCHANGED <<heap, plan, snap>>

\* ASTVisitor.visit up to the call of _visit (SyntaxChecker.visit enters it directly)
StartVisit ==
    /\ call.status \in {"idle", "returned"}
    /\ call.passes < call.max_passes
    /\ \E flag_run \in IF IsChecker(vis) THEN call.flag_runs ELSE {TRUE} :
          call' = [call EXCEPT !.status = "running", !.passes = @ + 1,
                               !.flag_run = flag_run, !.value = NoneV]
    /\ vis' = [CompilePrefixes(vis) EXCEPT !.visiting = TRUE]
    /\ stack' = <<NewFrame(call.root)>>
    /\ snap' = heap
    /\ UNCHANGED <<heap, retval, plan>>

\* _visit, lines 438-447: the pre-visit function, unless visiting is paused
PreFn(v1, h, pl, x) == IF v1.dont_visit THEN v1 ELSE VisitFnPre(v1, h, pl, x)

\* _visit that leaves the no_children_visits flag set when it has skipped the children
AfterPreFnKeepsFlag(v2, x) ==
    IF Raised(v2) THEN Escapes(v2, VisitError(v2.exc))
    ELSE /\ IF v2.flags.no_children_visits
            THEN /\ vis' = v2
                 /\ stack' = SetTop([Top EXCEPT !.pc = "post"])
            ELSE IF ~IsNode(x)
            THEN /\ vis' = v2
                 /\ stack' = SetTop([Top EXCEPT !.pc = "post"])
            ELSE /\ vis' = Logged(ConsumeReverse(v2), "begin", x, "")
                 /\ stack' = SetTop([Top EXCEPT !.pc = "slots", !.si = 1,
                                                 !.vlist = VisitList(v2, heap, x)])
         /\ UNCHANGED <<heap, retval, call, plan, snap>>
\* _visit, lines 441-475, once the pre-visit function has left v2
AfterPreFn(v2, x) ==
    IF Raised(v2) THEN Escapes(v2, VisitError(v2.exc))
    ELSE /\ IF v2.flags.no_children_visits
            THEN /\ vis' = ClearFlag(v2, "no_children_visits")
                 /\ stack' = SetTop([Top EXCEPT !.pc = "post"])
            ELSE IF ~IsNode(x)
            THEN /\ vis' = v2
                 /\ stack' = SetTop([Top EXCEPT !.pc = "post"])
            ELSE /\ vis' = Logged(ConsumeReverse(v2), "begin", x, "")
                 /\ stack' = SetTop([Top EXCEPT !.pc = "slots", !.si = 1,
                                                 !.vlist = VisitList(v2, heap, x)])
         /\ UNCHANGED <<heap, retval, call, plan, snap>>

\* _visit, lines 438-475: the pre-visit and the choice of the visit list
PreVisit ==
    /\ Running /\ Top.pc = "pre"
    /\ AfterPreFn(PreFn([vis EXCEPT !.visit_depth = @ + 1], heap, plan, Top.node), Top.node)

\* _visit, lines 477-488: one step of the loop over visit_list
NextSlot ==
    /\ Running /\ Top.pc = "slots"
    /\ IF Top.si > Len(Top.vlist)
       THEN /\ stack' = SetTop([Top EXCEPT !.pc = "post"])
            /\ vis' = vis
       ELSE LET attr_name == Top.vlist[Top.si]
                attr_value == heap[Top.node].slots[attr_name]
            IN IF ~CheckVisitAllowed(vis, attr_name)
               THEN /\ stack' = SetTop([Top EXCEPT !.si = @ + 1])
                    /\ vis' = vis
               ELSE IF ~attr_value.many
               THEN /\ stack' = Append(SetTop([Top EXCEPT !.pc = "wait_scalar"]),
                                       NewFrame(attr_value.val[1]))
                    /\ vis' = Logged(vis, "descend", Top.node, attr_name)
               ELSE /\ stack' = SetTop([Top EXCEPT !.pc = "elems", !.av = attr_value.val,
                                                   !.idx = 1, !.mods = <<>>, !.dels = <<>>])
                    /\ vis' = Logged(vis, "descend", Top.node, attr_name)
    /\ UNCHANGED <<heap, retval, call, plan, snap>>

\* _visit, lines 488-489: the next element of a sequence slot is visited
NextElem ==
    /\ Running /\ Top.pc = "elems" /\ Top.idx <= Len(Top.av)
    /\ stack' = Append(SetTop([Top EXCEPT !.pc = "wait_elem"]), NewFrame(Top.av[Top.idx]))
    /\ UNCHANGED <<heap, vis, retval, call, plan, snap>>

\* _visit_and_modify(node, attr), lines 418-434, after _visit has returned
ScalarReturn ==
    /\ Running /\ Top.pc = "wait_scalar"
    /\ LET attr == Top.vlist[Top.si]
           to_visit == heap[Top.node].slots[attr]
       IN heap' = IF retval # to_visit THEN SetAttr(heap, Top.node, attr, retval) ELSE heap
    /\ stack' = SetTop([Top EXCEPT !.pc = "slots", !.si = @ + 1])
    /\ UNCHANGED <<vis, retval, call, plan, snap>>

\* _visit_and_modify(statement), and lines 491-499 on its result
ElemReturn ==
    /\ Running /\ Top.pc = "wait_elem"
    /\ LET statement == Top.av[Top.idx]
       IN stack' = SetTop([Top EXCEPT
              !.pc = "elems", !.idx = @ + 1,
              !.dels = IF retval = NoneV THEN Append(@, Top.idx) ELSE @,
              !.mods = IF retval # One(statement) /\ retval # NoneV
                       THEN Append(@, [idx |-> Top.idx, res |-> retval]) ELSE @])
    /\ UNCHANGED <<heap, vis, retval, call, plan, snap>>

\* _visit, lines 501-536: the sequence slot is rebuilt and assigned
FinishList ==
    /\ Running /\ Top.pc = "elems" /\ Top.idx > Len(Top.av)
    /\ heap' = FinishSlot(heap, Top.node, Top.vlist[Top.si], Top.av, Top.mods, Top.dels)
    /\ stack' = SetTop([Top EXCEPT !.pc = "slots", !.si = @ + 1])
    /\ UNCHANGED <<vis, retval, call, plan, snap>>

\* _visit, lines 551-558: the history entry for the returned value
Historied(r, x) ==
    IF r.v.history_len > 0
    THEN StoreVisit(r.v, [node |-> r.ret, replaces |-> IF r.ret = One(x) THEN None ELSE x,
                          depth |-> r.v.visit_depth])
    ELSE r.v

\* _visit, lines 548-560, once the post-visit function has returned r
AfterPostFn(r, x) ==
    IF Raised(r.v) THEN Escapes(r.v, VisitError(r.v.exc))
    ELSE /\ vis' = [Historied(r, x) EXCEPT
                       !.visit_depth = @ - 1,
                       !.log = Append(@, [Ev("return", x, "") EXCEPT !.r = r.ret])]
         /\ retval' = r.ret
         /\ stack' = Prefix(stack, Len(stack) - 1)
         /\ UNCHANGED <<heap, call, plan, snap>>

\* _visit, lines 543-560: the post-visit, the history entry and the return
PostVisit ==
    /\ Running /\ Top.pc = "post"
    /\ LET x == Top.node
       IN IF vis.dont_visit
          THEN /\ vis' = [vis EXCEPT !.visit_depth = @ - 1,
                                     !.log = Append(@, [Ev("return", x, "") EXCEPT !.r = One(x)])]
               /\ retval' = One(x)
               /\ stack' = Prefix(stack, Len(stack) - 1)
               /\ UNCHANGED <<heap, call, plan, snap>>
          ELSE AfterPostFn(VisitFnPost(vis, heap, plan, x), x)

\* visit() that sets _pass_run whatever flag_run is
FinishVisitAlwaysFlags ==
    /\ call.status = "running" /\ stack = <<>>
    /\ vis' = [vis EXCEPT !.visiting = FALSE, !.visited_nodes = {},
                          !.pass_run = IF IsChecker(vis) THEN TRUE ELSE @]
    /\ call' = [call EXCEPT !.status = "returned",
                            !.value = IF IsChecker(vis) THEN NoneV ELSE retval]
    /\ UNCHANGED <<heap, stack, retval, plan, snap>>
\* ASTVisitor.visit, lines 376-379, and SyntaxChecker.visit, lines 99-100
FinishVisit ==
    /\ call.status = "running" /\ stack = <<>>
    /\ vis' = [vis EXCEPT !.visiting = FALSE, !.visited_nodes = {},
                          !.pass_run = IF IsChecker(vis) /\ call.flag_run THEN TRUE ELSE @]
    /\ call' = [call EXCEPT !.status = "returned",
                            !.value = IF IsChecker(vis) THEN NoneV ELSE retval]
    /\ UNCHANGED <<heap, stack, retval, plan, snap>>

VisitNext ==
    \/ StartVisit \/ PreVisit \/ NextSlot \/ NextElem \/ ScalarReturn
    \/ ElemReturn \/ FinishList \/ PostVisit \/ FinishVisit


----------------------------------------------------------------------------
(* Initial states *)

\* the caller has constructed a visitor and is about to call visit(root)
NewCall(root, max_passes, flag_runs) ==
    [status |-> "idle", value |-> NoneV, exc |-> NoExc, root |-> root,
     passes |-> 0, max_passes |-> max_passes, flag_run |-> TRUE, flag_runs |-> flag_runs,
     arg |-> None, op |-> "visit", report |-> <<>>]

GenericKinds == {"Prog", "Blk", "Id", "Stmt"}

NoPre == [n \in Nodes |-> "none"]
NoPost == [n \in Nodes |-> "keep"]
NoCol == [n \in Nodes |-> NoCollect]

\* a callback behaviour for the root, for node 2, for node 3 and for each element
PerNode(root_c, blk_c, id_c, elem_c, default) ==
    [n \in Nodes |->
        IF n = 1 THEN root_c ELSE IF n = 2 THEN blk_c ELSE IF n = 3 THEN id_c
        ELSE IF n <= TreeSize THEN elem_c[n - 3] ELSE default]

\* A mutating pass of an ASTVisitor with a visit_<Kind> method for every kind:
\* each element of the sequence slot is kept, deleted, replaced or spliced,
\* the scalar children are kept, deleted or replaced
EditChoices == {"keep", "delete", "replace", "splice0", "splice1", "splice2"}
InitEdit ==
    /\ heap = GenericTree
    /\ vis = NewVisitor("ASTVisitor", {}, GenericKinds, 0, <<>>)
    /\ stack = <<>>
    /\ retval = NoneV
    /\ call = NewCall(1, 1, {TRUE})
    /\ \E elem_c \in [1..ListLen -> EditChoices],
          blk_c \in {"keep", "delete", "replace"}, id_c \in {"keep", "delete"} :
          /\ plan = [nest |-> 0, pre |-> NoPre, col |-> NoCol,
                     post |-> PerNode("keep", blk_c, id_c, elem_c, "keep")]
          /\ TotalDemand(plan, TreeSize) <= NumSpare
    /\ snap = heap

SpecEdit == InitEdit /\ [][VisitNext]_vars


\* A pass of an ASTVisitor with visitPre_<Kind> and visit_<Kind> methods for every
\* kind, in which at most MaxActive nodes have callbacks that set the reverse_visit
\* flag or the no_children_visits flag
MaxActive == 2
OrderBehaviours ==
    {[pre |-> a, post |-> b] :
        a \in {"none", "reverse", "nochild", "reverse_nochild"}, b \in {"keep", "setrev"}}
    \ {[pre |-> "none", post |-> "keep"]}
InitOrder ==
    /\ heap = GenericTree
    /\ vis = NewVisitor("ASTVisitor", GenericKinds, GenericKinds, 0, <<>>)
    /\ stack = <<>>
    /\ retval = NoneV
    /\ call = NewCall(1, 1, {TRUE})
    /\ \E active \in SUBSET (1..TreeSize) :
          /\ Cardinality(active) <= MaxActive
          /\ \E f \in [active -> OrderBehaviours] :
                plan = [nest |-> 0, pre |-> [n \in Nodes |-> IF n \in active THEN f[n].pre ELSE "none"],
                        post |-> [n \in Nodes |-> IF n \in active THEN f[n].post ELSE "keep"],
                        col |-> NoCol]
    /\ snap = heap

SpecOrder == InitOrder /\ [][VisitNext]_vars

\* Passes of a SyntaxChecker with visitPre_Default and visit_Default methods over
\* the generic tree, in which at most MaxCollect nodes have a symbol collected for
\* them by the callback; report_symbols() is read between and after the passes
MaxCollect == 2
MaxPasses == 2
SymNames == {"x", "y"}
\* the nodes a symbol may be collected for: the root, node 2, node 3, the first element
CollectNodes == {1, 2, 3, 4}
CollectChoices ==
    {[when |-> w, name |-> nm, globl |-> g, ignore |-> i] :
        w \in {"pre", "post"}, nm \in SymNames, g \in BOOLEAN, i \in BOOLEAN}

\* SyntaxChecker.report_symbols() called after a pass
DoReport ==
    /\ call.status = "returned"
    /\ Len(call.report) < call.passes
    /\ call' = [call EXCEPT !.report = Append(@, ReportSymbols(vis))]
    /\ UNCHANGED <<heap, vis, stack, retval, plan, snap>>

ChkNext == VisitNext \/ DoReport

InitChk ==
    /\ heap = GenericTree
    /\ vis = NewVisitor("SyntaxChecker", {"Default"}, {"Default"}, 0, <<>>)
    /\ stack = <<>>
    /\ retval = NoneV
    /\ call = NewCall(1, MaxPasses, BOOLEAN)
    /\ \E active \in SUBSET CollectNodes :
          /\ Cardinality(active) <= MaxCollect
          /\ \E f \in [active -> CollectChoices] :
                plan = [nest |-> 0, pre |-> NoPre, post |-> NoPost,
                        col |-> [n \in Nodes |-> IF n \in active THEN f[n] ELSE NoCollect]]
    /\ snap = heap

SpecChk == InitChk /\ [][ChkNext]_vars

\* Passes of a StateMachineChecker over the trees of the state-machine example
InitSM ==
    /\ \E sc \in SMScenarios : heap = SMTree(sc)
    /\ vis = NewVisitor("StateMachineChecker", SMPreTable, SMPostTable, 0, SMText)
    /\ stack = <<>>
    /\ retval = NoneV
    /\ call = NewCall(1, MaxPasses, BOOLEAN)
    /\ plan = [nest |-> 0, pre |-> NoPre, post |-> NoPost, col |-> NoCol]
    /\ snap = heap

SpecSM == InitSM /\ [][VisitNext]_vars

\* add_visit_hook(kind, method) called by the owner of the visitor before a visit,
\* for up to MaxHooks kinds; a kind gets one hook (the order in which the hooks of
\* one kind are called is that of a Python set)
MaxHooks == 1
HooksAdded(v) == Len(v.hooks)
DoAddVisitHook(kinds, methods) ==
    /\ call.status = "idle"
    /\ HooksAdded(vis) < MaxHooks
    /\ \E node_cls_name \in kinds, method \in methods :
          /\ ~DHas(vis.hooks, node_cls_name)
          /\ vis' = AddVisitHook(vis, node_cls_name, method)
    /\ UNCHANGED <<heap, stack, retval, call, plan, snap>>

\* A pass of an ASTVisitor or of a SyntaxChecker with visitPre_<Kind> and
\* visit_<Kind> methods for every kind, in which one callback or one hook raises:
\* an exception of its own, or the one that comes out of the visits it starts
ErrKinds == {"Blk", "Stmt", "Id"}
ErrHooks == {Hook("log", 0)} \cup {Hook(c, k) : c \in RaiseChoices, k \in 0..MaxNest}
ErrPlans ==
    {[nest |-> k, col |-> NoCol,
      pre |-> [n \in Nodes |-> IF n = m /\ w = "pre" THEN c ELSE "none"],
      post |-> [n \in Nodes |-> IF n = m /\ w = "post" THEN c ELSE "keep"]] :
        k \in 0..MaxNest, m \in 1..TreeSize, w \in {"pre", "post", "hook"},
        c \in RaiseChoices}
InitErr ==
    /\ heap = GenericTree
    /\ \E cls \in {"ASTVisitor", "SyntaxChecker"} :
          vis = NewVisitor(cls, GenericKinds, GenericKinds, 0, <<>>)
    /\ stack = <<>>
    /\ retval = NoneV
    /\ call = NewCall(1, 1, {TRUE})
    /\ plan \in ErrPlans
    /\ snap = heap

ErrNext == VisitNext \/ DoAddVisitHook(ErrKinds, ErrHooks)
SpecErr == InitErr /\ [][ErrNext]_vars

\* A pass of an ASTVisitor whose callback tables hold a method for every kind,
\* only the Default methods, or nothing, with hooks registered for some kinds;
\* at most one callback pauses the visitor, skips the children, deletes or
\* replaces its node
HookTables == {GenericKinds, {"Default"}, {}}
HookPlans ==
    {[nest |-> 0, col |-> NoCol, pre |-> NoPre, post |-> NoPost]}
    \cup {[nest |-> 0, col |-> NoCol,
           pre |-> [n \in Nodes |-> IF n = m THEN c ELSE "none"], post |-> NoPost] :
              m \in 1..TreeSize, c \in {"pause", "nochild"}}
    \cup {[nest |-> 0, col |-> NoCol, pre |-> NoPre,
           post |-> [n \in Nodes |-> IF n = m THEN c ELSE "keep"]] :
              m \in 2..TreeSize, c \in {"pause", "delete", "replace"}}
InitHook ==
    /\ heap = GenericTree
    /\ \E pre \in HookTables, post \in HookTables, ignore_visited \in BOOLEAN :
          vis = [NewVisitor("ASTVisitor", pre, post, 0, <<>>)
                    EXCEPT !.flags.ignore_visited = ignore_visited]
    /\ stack = <<>>
    /\ retval = NoneV
    /\ call = NewCall(1, 1, {TRUE})
    /\ plan \in HookPlans
    /\ snap = heap

HookNext == VisitNext \/ DoAddVisitHook(GenericKinds, {Hook("log", 0)})
SpecHook == InitHook /\ [][HookNext]_vars

\* Passes of an ASTVisitor with visitPre_<Kind> and visit_<Kind> methods and a hook
\* for every kind, that records its history: the pre-callback or the post-callback
\* of one node calls pause_visiting(), the post-callback of at most one other node
\* deletes or replaces its node, and the owner of the visitor calls
\* resume_visiting() between two passes
PauseHistoryLen == 4 * TreeSize * MaxPasses
AllHooks == [i \in 1..4 |-> [k |-> <<"Prog", "Blk", "Id", "Stmt">>[i], v |-> {Hook("log", 0)}]]
PausePlans ==
    {[nest |-> 0, col |-> NoCol,
      pre |-> [n \in Nodes |-> IF n = m /\ at = "pre" THEN "pause" ELSE "none"],
      post |-> [n \in Nodes |-> IF n = m /\ at = "post" THEN "pause"
                                ELSE IF n = d THEN c ELSE "keep"]] :
         m \in 1..TreeSize, at \in {"pre", "post"}, d \in 2..TreeSize,
         c \in {"keep", "delete", "replace"}}
DoResumeVisiting ==
    /\ call.status = "returned" /\ vis.dont_visit
    /\ vis' = Logged(ResumeVisiting(vis), "resume", None, "")
    /\ UNCHANGED <<heap, stack, retval, call, plan, snap>>

InitPause ==
    /\ heap = GenericTree
    /\ vis = [NewVisitor("ASTVisitor", GenericKinds, GenericKinds, PauseHistoryLen, <<>>)
                 EXCEPT !.hooks = AllHooks]
    /\ stack = <<>>
    /\ retval = NoneV
    /\ call = NewCall(1, MaxPasses, {TRUE})
    /\ plan \in PausePlans
    /\ snap = heap

PauseNext == VisitNext \/ DoResumeVisiting
SpecPause == InitPause /\ [][PauseNext]_vars

\* Passes of an ExclusiveASTVisitor with visitPre_<Kind> and visit_<Kind> methods
\* for every kind; its owner adds prefixes between the passes, and at most one
\* pre-callback adds a prefix or raises
Prefixes == {"a", "b", "x"}
ExclPlans ==
    {[nest |-> 0, col |-> NoCol, post |-> NoPost,
      pre |-> [n \in Nodes |-> IF n = m THEN c ELSE "none"]] :
        m \in {1, 2, 4}, c \in {"none", "add_allowed", "add_disallowed", "raise"}}

\* add_allowed_prefixes(p) called by the owner of the visitor
DoAddAllowedPrefixes(p) ==
    /\ call.status # "running"
    /\ vis' = [AddAllowedPrefixes(vis, {p}) EXCEPT !.exc = NoExc]
    /\ call' = [call EXCEPT !.op = "add_allowed_prefixes", !.arg = p,
                            !.exc = AddAllowedPrefixes(vis, {p}).exc]
    /\ UNCHANGED <<heap, stack, retval, plan, snap>>

\* add_disallowed_prefixes(p) called by the owner of the visitor
DoAddDisallowedPrefixes(p) ==
    /\ call.status # "running"
    /\ vis' = [AddDisallowedPrefixes(vis, {p}) EXCEPT !.exc = NoExc]
    /\ call' = [call EXCEPT !.op = "add_disallowed_prefixes", !.arg = p,
                            !.exc = AddDisallowedPrefixes(vis, {p}).exc]
    /\ UNCHANGED <<heap, stack, retval, plan, snap>>

InitExcl ==
    /\ heap = GenericTree
    /\ \E disallowed \in {{}, {"b"}}, exclusive \in BOOLEAN :
          vis = NewExclusiveVisitor(disallowed, exclusive, GenericKinds, GenericKinds)
    /\ stack = <<>>
    /\ retval = NoneV
    /\ call = NewCall(1, MaxPasses, {TRUE})
    /\ plan \in ExclPlans
    /\ snap = heap

ExclNext ==
    \/ VisitNext
    \/ \E p \in Prefixes : DoAddAllowedPrefixes(p)
    \/ \E p \in Prefixes : DoAddDisallowedPrefixes(p)
SpecExcl == InitExcl /\ [][ExclNext]_vars

\* A pass of an ExclusiveASTVisitor, in exclusive mode or not, whose visit_<Kind>
\* methods are named after kinds and after names that slots of the tree have too
\* ("a", "b"); it is constructed with or without disallowed prefixes and its owner
\* adds prefixes before the pass
AllowTables == SUBSET {"a", "b", "Stmt"}
InitAllow ==
    /\ heap = GenericTree
    /\ \E disallowed \in {{}, {"b"}}, exclusive \in BOOLEAN,
          pre \in {{}, {"Stmt"}}, post \in AllowTables :
          vis = NewExclusiveVisitor(disallowed, exclusive, pre, post)
    /\ stack = <<>>
    /\ retval = NoneV
    /\ call = NewCall(1, 1, {TRUE})
    /\ plan = [nest |-> 0, pre |-> NoPre, post |-> NoPost, col |-> NoCol]
    /\ snap = heap

SpecAllow == InitAllow /\ [][ExclNext]_vars

----------------------------------------------------------------------------
(* SyntaxChecker.find_node_line_in_text applied to texts and offsets *)

MaxTextLen == 5
TextsOfLen(k) == [1..k -> {"c", "\n"}]
Texts == UNION {TextsOfLen(k) : k \in 1..MaxTextLen}

\* find_node_line_in_text(txt, position) is called on the text of the checker
DoFindNodeLineInText(position) ==
    /\ call' = [call EXCEPT !.op = "find_node_line_in_text", !.arg = position,
                            !.status = "returned",
                            !.value = FindNodeLineInText(vis.text, position)]
    /\ UNCHANGED <<heap, vis, stack, retval, plan, snap>>

InitLine ==
    /\ heap = GenericTree
    /\ \E txt \in Texts : vis = NewVisitor("SyntaxChecker", {}, {}, 0, txt)
    /\ stack = <<>>
    /\ retval = NoneV
    /\ call = NewCall(None, 1, {TRUE})
    /\ plan = [nest |-> 0, pre |-> NoPre, post |-> NoPost, col |-> NoCol]
    /\ snap = heap

LineNext == \E position \in 0..(Len(vis.text) - 1) : DoFindNodeLineInText(position)
SpecLine == InitLine /\ [][LineNext]_vars

\* get_error(node, message, code) and get_error_from_code(node, code) called on a
\* checker that holds a text, for a node (node 2) that has no "_tx_position" entry,
\* whose entry is None, or whose position lies in the text or beyond its end
ErrorPositions == {NoPos, PosNone} \cup 0..(MaxTextLen + 2)
ErrorCodes == {None, SYNTAX_ERR_INVALID_IDENTIFIER}
Answered(c, op, node, e) ==
    [c EXCEPT !.op = op, !.arg = node, !.exc = e,
              !.status = IF e.type = "SyntaxCheckerError" THEN "returned" ELSE "raised"]

DoGetError(node) ==
    /\ \E code \in ErrorCodes :
          call' = Answered(call, "get_error", node, GetError(vis, heap, node, code))
    /\ UNCHANGED <<heap, vis, stack, retval, plan, snap>>

DoGetErrorFromCode(node) ==
    /\ call' = Answered(call, "get_error_from_code", node,
                        GetErrorFromCode(vis, heap, node, SYNTAX_ERR_INVALID_IDENTIFIER))
    /\ UNCHANGED <<heap, vis, stack, retval, plan, snap>>

InitGetError ==
    /\ \E position \in ErrorPositions : heap = [GenericTree EXCEPT ![2].pos = position]
    /\ \E txt \in Texts : vis = NewVisitor("SyntaxChecker", {}, {}, 0, txt)
    /\ stack = <<>>
    /\ retval = NoneV
    /\ call = NewCall(None, 1, {TRUE})
    /\ plan = [nest |-> 0, pre |-> NoPre, post |-> NoPost, col |-> NoCol]
    /\ snap = heap

GetErrorNext == DoGetError(2) \/ DoGetErrorFromCode(2)
SpecGetError == InitGetError /\ [][GetErrorNext]_vars

----------------------------------------------------------------------------
(* ASTVisitor.get_first_occurrence and get_all_occurrences *)

IsStr(x) == x < 0
IsOfKind(h, x, node_type) == IsNode(x) /\ h[x].kind = node_type
AttributeError == Exc("AttributeError", None)

\* the outcome of a search: the exception it raised, or the value it returned
Ok(value) == [exc |-> NoExc, val |-> value]
Fails(e) == [exc |-> e, val |-> <<>>]

RECURSIVE GetAllOccurrences(_, _, _)
RECURSIVE AllInAttrs(_, _, _, _, _)
RECURSIVE AllInElems(_, _, _, _, _)

\* occurrences.extend(...) with the outcome r of a recursive search, and the rest
\* of the loop over node_dict
AllAfter(h, root, node_type, i, occurrences, r) ==
    IF r.exc # NoExc THEN r
    ELSE AllInAttrs(h, root, node_type, i + 1, occurrences \o r.val)

\* get_all_occurrences, lines 262-265: the loop over the elements of a sequence
AllInElems(h, objs, node_type, k, found) ==
    IF k > Len(objs) THEN Ok(found)
    ELSE IF GetAllOccurrences(h, objs[k], node_type).exc # NoExc
    THEN GetAllOccurrences(h, objs[k], node_type)
    ELSE AllInElems(h, objs, node_type, k + 1,
                    found \o GetAllOccurrences(h, objs[k], node_type).val)

\* get_all_occurrences, lines 257-272: the loop over node_dict from the i-th name
AllInAttrs(h, root, node_type, i, occurrences) ==
    IF i > Len(h[root].names) THEN Ok(occurrences)
    ELSE LET attr == h[root].slots[h[root].names[i]]
         IN IF ~attr.many /\ IsOfKind(h, attr.val[1], node_type)
            THEN AllInAttrs(h, root, node_type, i + 1, Append(occurrences, attr.val[1]))
            ELSE IF attr.many
            THEN AllAfter(h, root, node_type, i, occurrences,
                          AllInElems(h, attr.val, node_type, 1, <<>>))
            ELSE IF IsStr(attr.val[1]) THEN Ok(<<>>)
            ELSE AllAfter(h, root, node_type, i, occurrences,
                          GetAllOccurrences(h, attr.val[1], node_type))

\* ASTVisitor.get_all_occurrences; a root that is no node (None, a string) has
\* neither __slots__ nor __dict__
GetAllOccurrences(h, root, node_type) ==
    IF ~IsNode(root) THEN Fails(AttributeError)
    ELSE AllInAttrs(h, root, node_type, 1, <<>>)

RECURSIVE GetFirstOccurrence(_, _, _, _, _)
RECURSIVE FirstInAttrs(_, _, _, _, _)
RECURSIVE FirstInElems(_, _, _, _, _)

\* get_first_occurrence, lines 224-227: the loop over the elements of a sequence
FirstInElems(v, h, objs, node_type, k) ==
    IF k > Len(objs) THEN Ok(None)
    ELSE IF \/ GetFirstOccurrence(v, h, objs[k], node_type, TRUE).exc # NoExc
            \/ GetFirstOccurrence(v, h, objs[k], node_type, TRUE).val # None
    THEN GetFirstOccurrence(v, h, objs[k], node_type, TRUE)
    ELSE FirstInElems(v, h, objs, node_type, k + 1)

\* after a sequence slot: return ret when it is not None, else go on
FirstAfterList(v, h, node, node_type, i, r) ==
    IF r.exc # NoExc \/ r.val # None THEN r
    ELSE FirstInAttrs(v, h, node, node_type, i + 1)

\* after the search under a scalar slot (line 231): its result is dropped
FirstAfterScalar(v, h, node, node_type, i, r) ==
    IF r.exc # NoExc THEN r
    ELSE FirstInAttrs(v, h, node, node_type, i + 1)

\* get_first_occurrence, lines 218-234: the loop over node_dict from the i-th name
FirstInAttrs(v, h, node, node_type, i) ==
    IF i > Len(h[node].names) THEN Ok(None)
    ELSE LET attr_name == h[node].names[i]
             attr == h[node].slots[attr_name]
         IN IF ~CheckVisitAllowed(v, attr_name)
            THEN FirstInAttrs(v, h, node, node_type, i + 1)
            ELSE IF ~attr.many /\ IsOfKind(h, attr.val[1], node_type) THEN Ok(attr.val[1])
            ELSE IF attr.many
            THEN FirstAfterList(v, h, node, node_type, i,
                                FirstInElems(v, h, attr.val, node_type, 1))
            ELSE IF IsStr(attr.val[1]) THEN Ok(None)
            ELSE FirstAfterScalar(v, h, node, node_type, i,
                                  GetFirstOccurrence(v, h, attr.val[1], node_type, TRUE))

\* ASTVisitor.get_first_occurrence
GetFirstOccurrence(v, h, node, node_type, inclusive) ==
    IF IsOfKind(h, node, node_type) /\ inclusive THEN Ok(node)
    ELSE IF ~IsNode(node) THEN Fails(AttributeError)
    ELSE FirstInAttrs(v, h, node, node_type, 1)

\* The trees searched:
\*   1 Root   p -> 2, q -> [4 .. 3 + ListLen], s -> "s"   (in any order, s optional)
\*   2        r -> 3
\*   4        u -> OccSize         (the first element; the other elements have no slots)
\* every node but the root of a kind of OccKinds
OccKinds == {"A", "B"}
OccSize == 4 + ListLen
OccNodes == 1..OccSize
OccOrders ==
    {<<"p", "q">>, <<"q", "p">>,
     <<"p", "q", "s">>, <<"p", "s", "q">>, <<"q", "p", "s">>, <<"q", "s", "p">>,
     <<"s", "p", "q">>, <<"s", "q", "p">>}
OccTree(order, kinds) ==
    [n \in OccNodes |->
        IF n = 1 THEN NewNode("Root", TRUE, order,
                              [p |-> One(2), q |-> Many([i \in 1..ListLen |-> 3 + i]),
                               s |-> One(STR)], None, NoKey)
        ELSE IF n = 2 THEN NewNode(kinds[n], FALSE, <<"r">>, [r |-> One(3)], 1, "p")
        ELSE IF n = 3 THEN NewNode(kinds[n], FALSE, <<>>, <<>>, 2, "r")
        ELSE IF n = 4 THEN NewNode(kinds[n], FALSE, <<"u">>, [u |-> One(OccSize)], 1, "q")
        ELSE IF n = OccSize THEN NewNode(kinds[n], FALSE, <<>>, <<>>, 4, "u")
        ELSE NewNode(kinds[n], FALSE, <<>>, <<>>, 1, "q")]

\* the owner of the visitor calls get_all_occurrences(root, node_type)
DoGetAllOccurrences(root, node_type) ==
    /\ call' = [call EXCEPT
                   !.op = "get_all_occurrences", !.root = root, !.arg = node_type,
                   !.status = IF GetAllOccurrences(heap, root, node_type).exc # NoExc
                              THEN "raised" ELSE "returned",
                   !.exc = GetAllOccurrences(heap, root, node_type).exc,
                   !.value = Many(GetAllOccurrences(heap, root, node_type).val)]
    /\ UNCHANGED <<heap, vis, stack, retval, plan, snap>>

\* the owner of the visitor calls get_first_occurrence(node, node_type)
DoGetFirstOccurrence(node, node_type) ==
    /\ call' = [call EXCEPT
                   !.op = "get_first_occurrence", !.root = node, !.arg = node_type,
                   !.status = IF GetFirstOccurrence(vis, heap, node, node_type, TRUE).exc # NoExc
                              THEN "raised" ELSE "returned",
                   !.exc = GetFirstOccurrence(vis, heap, node, node_type, TRUE).exc,
                   !.value = IF GetFirstOccurrence(vis, heap, node, node_type, TRUE).exc # NoExc
                             THEN NoneV
                             ELSE One(GetFirstOccurrence(vis, heap, node, node_type, TRUE).val)]
    /\ UNCHANGED <<heap, vis, stack, retval, plan, snap>>

InitOcc ==
    /\ \E order \in OccOrders, kinds \in [2..OccSize -> OccKinds] :
          heap = OccTree(order, kinds)
    /\ vis = NewVisitor("ASTVisitor", {}, {}, 0, <<>>)
    /\ stack = <<>>
    /\ retval = NoneV
    /\ call = NewCall(1, 1, {TRUE})
    /\ plan = [nest |-> 0, pre |-> NoPre, post |-> NoPost, col |-> NoCol]
    /\ snap = heap

OccNext ==
    \/ \E root \in OccNodes, node_type \in OccKinds : DoGetAllOccurrences(root, node_type)
    \/ \E node \in OccNodes, node_type \in OccKinds : DoGetFirstOccurrence(node, node_type)
SpecOcc == InitOcc /\ [][OccNext]_vars

----------------------------------------------------------------------------
(* The scope and symbol operations of a SyntaxChecker, called one by one *)

MaxCalls == 4
SymNodes == {2, 3}
ScopeLocs == {None, 2, 4}
Args(name, globl, ignore) == [name |-> name, globl |-> globl, ignore |-> ignore]

\* the call that was made and how it ended
Called(op, node, arg, v2, value) ==
    [call EXCEPT !.op = op, !.root = node, !.arg = arg, !.passes = @ + 1,
                 !.status = IF Raised(v2) THEN "raised" ELSE "returned",
                 !.exc = v2.exc, !.value = value]
CanCall == call.status # "running" /\ call.passes < call.max_passes

DoEnterScope(location) ==
    /\ CanCall
    /\ vis' = EnterScope(vis, location)
    /\ call' = Called("enter_scope", location, Args(NoKey, FALSE, FALSE), vis', NoneV)
    /\ UNCHANGED <<heap, stack, retval, plan, snap>>

DoExitScope(location) ==
    /\ CanCall
    /\ vis' = [ExitScope(vis, location) EXCEPT !.exc = NoExc]
    /\ call' = Called("exit_scope", location, Args(NoKey, FALSE, FALSE),
                      ExitScope(vis, location), NoneV)
    /\ UNCHANGED <<heap, stack, retval, plan, snap>>

DoCollectSymbol(name, node, globl, ignore_redefine) ==
    /\ CanCall
    /\ vis' = [CollectSymbol(vis, heap, name, node, globl, ignore_redefine)
                 EXCEPT !.exc = NoExc]
    /\ call' = Called("collect_symbol", node, Args(name, globl, ignore_redefine),
                      CollectSymbol(vis, heap, name, node, globl, ignore_redefine), NoneV)
    /\ UNCHANGED <<heap, stack, retval, plan, snap>>

DoLookup(name) ==
    /\ CanCall
    /\ call' = Called("scoped_symbol_lookup", None, Args(name, FALSE, FALSE), vis,
                      One(ScopedSymbolLookup(vis, name)))
    /\ UNCHANGED <<heap, vis, stack, retval, plan, snap>>

ScopeNext ==
    \/ \E location \in ScopeLocs : DoEnterScope(location)
    \/ \E location \in ScopeLocs \ {None} : DoExitScope(location)
    \/ \E name \in SymNames, node \in SymNodes, globl \in BOOLEAN, ignore \in BOOLEAN :
          DoCollectSymbol(name, node, globl, ignore)
    \/ \E name \in SymNames : DoLookup(name)

\* node 3 has no recorded position
InitScope ==
    /\ heap = [GenericTree EXCEPT ![3].pos = NoPos]
    /\ \E pass_run \in BOOLEAN :
          vis = [NewVisitor("SyntaxChecker", {}, {}, 0, <<>>) EXCEPT !.pass_run = pass_run]
    /\ stack = <<>>
    /\ retval = NoneV
    /\ call = [NewCall(None, MaxCalls, {TRUE}) EXCEPT !.op = "none",
                                                       !.arg = Args(NoKey, FALSE, FALSE)]
    /\ plan = [nest |-> 0, pre |-> NoPre, post |-> NoPost, col |-> NoCol]
    /\ snap = heap

SpecScope == InitScope /\ [][ScopeNext]_vars

\* The same operations under the discipline of a visit: the scopes are nodes nested
\* in each other (the elements 4, 5, ... of the tree stand for them), entered from
\* the outermost in and exited from the innermost out, down to MaxDepth open
\* scopes; "x" is declared at any level and looked up at any level
MaxDepth == 3
MaxDeepCalls == 7
NextScope(v) == 4 + Len(v.scope_stack)
DeepNext ==
    \/ Len(vis.scope_stack) < MaxDepth /\ DoEnterScope(NextScope(vis))
    \/ Len(vis.scope_stack) > 0 /\ DoExitScope(vis.scope_stack[Len(vis.scope_stack)].loc)
    \/ \E node \in SymNodes : DoCollectSymbol("x", node, FALSE, FALSE)
    \/ DoLookup("x")

InitDeep ==
    /\ heap = GenericTree
    /\ vis = NewVisitor("SyntaxChecker", {}, {}, 0, <<>>)
    /\ stack = <<>>
    /\ retval = NoneV
    /\ call = [NewCall(None, MaxDeepCalls, {TRUE}) EXCEPT !.op = "none",
                                                          !.arg = Args(NoKey, FALSE, FALSE)]
    /\ plan = [nest |-> 0, pre |-> NoPre, post |-> NoPost, col |-> NoCol]
    /\ snap = heap

SpecDeep == InitDeep /\ [][DeepNext]_vars

\* The calls a checker makes while it walks nested scope nodes, with every argument
\* of _collect_symbol: a name is collected globally or locally, with or without
\* ignore_redefine, at global level and inside up to MaxDepth open scopes, before
\* and after a pass has completed
MaxNestCalls == 5
NestNext ==
    \/ Len(vis.scope_stack) < MaxDepth /\ DoEnterScope(NextScope(vis))
    \/ Len(vis.scope_stack) > 0 /\ DoExitScope(vis.scope_stack[Len(vis.scope_stack)].loc)
    \/ \E name \in SymNames, node \in SymNodes, globl \in BOOLEAN, ignore \in BOOLEAN :
          DoCollectSymbol(name, node, globl, ignore)

InitNest ==
    /\ heap = GenericTree
    /\ \E pass_run \in BOOLEAN :
          vis = [NewVisitor("SyntaxChecker", {}, {}, 0, <<>>) EXCEPT !.pass_run = pass_run]
    /\ stack = <<>>
    /\ retval = NoneV
    /\ call = [NewCall(None, MaxNestCalls, {TRUE}) EXCEPT !.op = "none",
                                                          !.arg = Args(NoKey, FALSE, FALSE)]
    /\ plan = [nest |-> 0, pre |-> NoPre, post |-> NoPost, col |-> NoCol]
    /\ snap = heap

SpecNest == InitNest /\ [][NestNext]_vars

----------------------------------------------------------------------------
(* ScoffASTObject.__deepcopy__ and ScoffASTObject.copy *)

\* the identity of the next object that is constructed
NewId(h) == Cardinality(DOMAIN h) + 1

\* a member taken over as it is
ShareMember(h, v) == [h |-> h, v |-> v]

\* self._textx_data.get("_tx_position"), lines 292-293: None when the node has no
\* such entry; the end position is read in the same way
OriginalLoc(h, n) == IF h[n].pos = NoPos THEN PosNone ELSE h[n].pos

RECURSIVE DeepCopyNode(_, _)
RECURSIVE DeepCopyMember(_, _)

\* copy.deepcopy of a list: the copies of its elements share one memo
RECURSIVE DeepCopyElems(_, _, _, _, _)
DeepCopyElems(h, s, i, memo, acc) ==
    IF i > Len(s) THEN [h |-> h, val |-> acc]
    ELSE IF ~IsNode(s[i]) THEN DeepCopyElems(h, s, i + 1, memo, Append(acc, s[i]))
    ELSE IF DHas(memo, s[i])
         THEN DeepCopyElems(h, s, i + 1, memo, Append(acc, DGet(memo, s[i])))
    ELSE LET c == DeepCopyNode(h, s[i])
         IN DeepCopyElems(c.h, s, i + 1, DPut(memo, s[i], c.ret), Append(acc, c.ret))

\* copy.deepcopy(getattr(self, member_name)), line 287
DeepCopyMember(h, v) ==
    IF v.many
    THEN LET c == DeepCopyElems(h, v.val, 1, <<>>, <<>>) IN [h |-> c.h, v |-> Many(c.val)]
    ELSE IF IsNode(v.val[1])
         THEN LET c == DeepCopyNode(h, v.val[1]) IN [h |-> c.h, v |-> One(c.ret)]
         ELSE [h |-> h, v |-> v]

\* __deepcopy__, lines 285-287: the members, in the order of the visitable names
RECURSIVE DeepCopyMembers(_, _, _, _)
DeepCopyMembers(h, n, i, members) ==
    IF i > Len(h[n].names) THEN [h |-> h, members |-> members]
    ELSE LET c == DeepCopyMember(h, h[n].slots[h[n].names[i]])
         IN DeepCopyMembers(c.h, n, i + 1, DPut(members, h[n].names[i], c.v))

\* __deepcopy__: the copy is constructed from the copied members (line 295, where
\* __init__ adopts the members that are nodes), then every node among the members
\* and the elements of the list members gets the copy as parent (lines 297-303)
DeepCopyNode(h, n) ==
    LET m == DeepCopyMembers(h, n, 1, <<>>)
        ret == NewId(m.h)
        made == [NewNode(h[n].kind, FALSE, DKeys(m.members), DFun(m.members), None, NoKey)
                    EXCEPT !.copy = TRUE, !.pos = NoPos, !.orig = OriginalLoc(h, n)]
        h1 == m.h @@ (ret :> made)
        Scalar(x) == {i \in 1..Len(m.members) :
                         ~m.members[i].v.many /\ m.members[i].v.val[1] = x}
        InList(x) == \E i \in 1..Len(m.members) :
                         m.members[i].v.many /\ x \in Range(m.members[i].v.val)
        h2 == [x \in DOMAIN h1 |->
                 IF Scalar(x) # {}
                 THEN [SetParent(h1, x, ret)[x] EXCEPT
                          !.pkey = m.members[CHOOSE i \in Scalar(x) :
                                                \A j \in Scalar(x) : j <= i].k]
                 ELSE IF InList(x) THEN SetParent(h1, x, ret)[x]
                 ELSE h1[x]]
    IN [h |-> h2, ret |-> ret]

\* copy(parent), lines 311-313
Copy(h, n, parent) ==
    LET c == DeepCopyNode(h, n) IN [h |-> SetParent(c.h, c.ret, parent), ret |-> c.ret]

\* the nodes of the tree below n, n included
RECURSIVE Reach(_, _)
Reach(h, n) ==
    {n} \cup UNION {Reach(h, c) : c \in {x \in UNION {Range(h[n].slots[nm].val) :
                                                        nm \in Range(h[n].names)} : IsNode(x)}}

\* node.copy(parent) is called; snap keeps the tree as the call leaves it
CopyNode ==
    /\ call.status = "idle"
    /\ LET c == Copy(heap, call.root, call.arg)
       IN /\ heap' = c.h
          /\ snap' = c.h
          /\ call' = [call EXCEPT !.status = "returned", !.value = One(c.ret)]
          /\ vis' = Logged(vis, "copy", call.root, NoKey)
    /\ UNCHANGED <<stack, retval, plan>>

\* a slot of the copy, or of a node inside the copy, is assigned
MaxAssign == 2
AssignValues ==
    {NoneV, One(STR), One(2), One(TreeSize + 1), Many(<<>>), Many(<<TreeSize + 1, TreeSize + 2>>)}
AssignSlot ==
    /\ call.status = "returned"
    /\ Len(vis.log) <= MaxAssign
    /\ \E m \in Reach(snap, call.value.val[1]), v \in AssignValues :
          \E i \in 1..Len(heap[m].names) :
             /\ heap' = SetAttr(heap, m, heap[m].names[i], v)
             /\ vis' = Logged(vis, "setattr", m, heap[m].names[i])
    /\ UNCHANGED <<stack, retval, call, plan, snap>>

CopyNext == CopyNode \/ AssignSlot

InitCopy ==
    /\ heap = [n \in Nodes |-> [GenericTree[n] EXCEPT !.pos = IF n = 3 THEN NoPos ELSE 10 * n]]
    /\ vis = NewVisitor("ASTVisitor", {}, {}, 0, <<>>)
    /\ stack = <<>>
    /\ retval = NoneV
    /\ \E n \in 1..TreeSize, parent \in {None, TreeSize + NumSpare} :
          call = [NewCall(n, 0, {TRUE}) EXCEPT !.arg = parent]
    /\ plan = [nest |-> 0, pre |-> NoPre, post |-> NoPost, col |-> NoCol]
    /\ snap = heap

SpecCopy == InitCopy /\ [][CopyNext]_vars

\* Passes of a SyntaxChecker subclass that has visitPre_<Kind> and visit_<Kind>
\* methods for some of the kinds that carry the scope marker, for Default, or for
\* none; the methods only return the node
MarkTables == SUBSET (ScopeKinds \cup {"Default"})
InitMark ==
    /\ heap = GenericTree
    /\ \E pre \in MarkTables, post \in MarkTables :
          vis = NewVisitor("SyntaxChecker", pre, post, 0, <<>>)
    /\ stack = <<>>
    /\ retval = NoneV
    /\ call = NewCall(1, MaxPasses, BOOLEAN)
    /\ plan = [nest |-> 0, pre |-> NoPre, post |-> NoPost, col |-> NoCol]
    /\ snap = heap

SpecMark == InitMark /\ [][VisitNext]_vars

\* A pass of an ASTVisitor with the minimal_depth flag set or clear, that has
\* visitPre_<Kind> and visit_<Kind> methods for some kinds, for every kind or for
\* none; the methods only return the node
MinTables == {{}, {"Blk"}, {"Stmt"}, {"Blk", "Stmt"}, GenericKinds}
InitMin ==
    /\ heap = GenericTree
    /\ \E pre \in MinTables, post \in MinTables, minimal_depth \in BOOLEAN :
          vis = [NewVisitor("ASTVisitor", pre, post, 0, <<>>)
                    EXCEPT !.flags.minimal_depth = minimal_depth]
    /\ stack = <<>>
    /\ retval = NoneV
    /\ call = NewCall(1, 1, {TRUE})
    /\ plan = [nest |-> 0, pre |-> NoPre, post |-> NoPost, col |-> NoCol]
    /\ snap = heap

SpecMin == InitMin /\ [][VisitNext]_vars

\* The tree of the generic passes with second references: the slot c of the root
\* refers to node 2 as its slot a does, and every entry of its list b is node 4
SharedTree ==
    [GenericTree EXCEPT ![1].slots.c = One(2),
                        ![1].slots.b = Many([i \in 1..ListLen |-> 4])]

\* One pass over the tree with second references, with the flag ignore_visited set
\* or not: the post-callback of node 2 or of node 4 may replace or delete its node
ShareTables == {GenericKinds, {"Blk", "Stmt"}, {"Default"}, {}}
SharePlans ==
    {[nest |-> 0, col |-> NoCol, pre |-> NoPre, post |-> NoPost]}
    \cup {[nest |-> 0, col |-> NoCol, pre |-> NoPre,
           post |-> [n \in Nodes |-> IF n = m THEN c ELSE "keep"]] :
              m \in {2, 4}, c \in {"delete", "replace"}}
InitShare ==
    /\ heap = SharedTree
    /\ \E pre \in ShareTables, post \in ShareTables, ignore_visited \in BOOLEAN :
          vis = [NewVisitor("ASTVisitor", pre, post, 0, <<>>)
                    EXCEPT !.flags.ignore_visited = ignore_visited]
    /\ stack = <<>>
    /\ retval = NoneV
    /\ call = NewCall(1, 1, {TRUE})
    /\ plan \in SharePlans
    /\ snap = heap

SpecShare == InitShare /\ [][VisitNext]_vars

\* Passes of an ASTVisitor that keeps a history of up to MaxHistory visits: the
\* post-callback of at most one node deletes or replaces its node, pauses the visit
\* or raises; the caller resumes a paused visitor, handles the exception of a visit
\* that raised, asks for the last visit, and visits again
MaxHistory == 3
HistPlans ==
    {[nest |-> 0, col |-> NoCol, pre |-> NoPre, post |-> NoPost]}
    \cup {[nest |-> 0, col |-> NoCol, pre |-> NoPre,
           post |-> [n \in Nodes |-> IF n = m THEN c ELSE "keep"]] :
              m \in 2..TreeSize, c \in {"delete", "replace", "pause", "raise"}}

\* the except clause of the caller of visit()
DoHandle ==
    /\ call.status = "raised"
    /\ call' = [call EXCEPT !.status = "returned", !.exc = NoExc]
    /\ UNCHANGED <<heap, vis, stack, retval, plan, snap>>

\* get_last_visited() called by the owner of the visitor after a visit; popleft()
\* of an empty deque raises IndexError
DoGetLastVisited ==
    /\ call.status = "returned"
    /\ IF vis.visit_history = <<>>
       THEN /\ call' = [call EXCEPT !.op = "get_last_visited", !.status = "raised",
                                    !.exc = Exc("IndexError", None)]
            /\ vis' = vis
       ELSE /\ call' = [call EXCEPT !.op = "get_last_visited",
                                    !.report = <<GetLastVisited(vis).ret>>]
            /\ vis' = GetLastVisited(vis).v
    /\ UNCHANGED <<heap, stack, retval, plan, snap>>

InitHist ==
    /\ heap = GenericTree
    /\ \E history_len \in 0..MaxHistory :
          vis = NewVisitor("ASTVisitor", {}, GenericKinds, history_len, <<>>)
    /\ stack = <<>>
    /\ retval = NoneV
    /\ call = NewCall(1, MaxPasses, {TRUE})
    /\ plan \in HistPlans
    /\ snap = heap

HistNext == VisitNext \/ DoResumeVisiting \/ DoHandle \/ DoGetLastVisited
SpecHist == InitHist /\ [][HistNext]_vars

\* Assignments to the slots a and b of the root of a tree whose Prog class declares
\* the types of its slots; the values are detached nodes of the kinds Blk, Stmt and
\* Id, a string, None, and sequences of the detached nodes
DeclsOfA == {NoDecl, Decl("class", "Blk"), Decl("optional", "Blk")}
DeclsOfB == {NoDecl, Decl("list", "Stmt"), Decl("optional_list", "Stmt")}
SpareKind(n) == IF n = TreeSize + 1 THEN "Blk" ELSE IF n = TreeSize + 2 THEN "Stmt" ELSE "Id"
TypedValues ==
    {One(n) : n \in Spares} \cup {One(STR), NoneV, Many(<<>>)}
    \cup {Many(<<n>>) : n \in Spares}
    \cup {Many(<<n, m>>) : n \in Spares, m \in Spares}

DoSetAttr(owner) ==
    /\ call.passes < MaxAssign
    /\ \E name \in {"a", "b"}, value \in TypedValues :
          /\ heap' = SetAttrChecked(heap, owner, name, value).h
          /\ call' = [call EXCEPT
                         !.op = "setattr", !.arg = owner, !.report = <<name, value>>,
                         !.passes = @ + 1,
                         !.exc = SetAttrChecked(heap, owner, name, value).exc,
                         !.status = IF SetAttrChecked(heap, owner, name, value).exc = NoExc
                                    THEN "returned" ELSE "raised"]
    /\ UNCHANGED <<vis, stack, retval, plan, snap>>

InitAssign ==
    /\ \E a \in DeclsOfA, b \in DeclsOfB :
          heap = [n \in Nodes |->
                     IF n = 1 THEN [GenericTree[n] EXCEPT
                                       !.annotations = [name \in {"a", "b"} |->
                                                           IF name = "a" THEN a ELSE b]]
                     ELSE IF n \in Spares THEN [GenericTree[n] EXCEPT !.kind = SpareKind(n)]
                     ELSE GenericTree[n]]
    /\ vis = NewVisitor("ASTVisitor", {}, {}, 0, <<>>)
    /\ stack = <<>>
    /\ retval = NoneV
    /\ call = NewCall(None, MaxAssign, {TRUE})
    /\ plan = [nest |-> 0, pre |-> NoPre, post |-> NoPost, col |-> NoCol]
    /\ snap = heap

SpecAssign == InitAssign /\ [][DoSetAttr(1)]_vars

----------------------------------------------------------------------------
(* DataParser (parsers/generic.py): the current state and the state stack. *)
(* In this specification vis holds the parser, and its log the calls made  *)

\* DataParser.__init__, the fields of the state machine
NewDataParser(initial_state) ==
    [cls |-> "DataParser", state |-> initial_state, state_stack |-> <<>>, log |-> <<>>]

\* DataParser._change_state (the state change handler does nothing)
ChangeState(prs, new_state) == [prs EXCEPT !.state = new_state]

\* DataParser._push_state: deque.append, then _change_state
PushState(prs, new_state) ==
    ChangeState([prs EXCEPT !.state_stack = Append(@, prs.state)], new_state)

\* DataParser._pop_state: count times deque.popleft, then _change_state to the entry
\* popped last; the parser and the exception raised
PopState(prs, count) ==
    IF count <= 0
    THEN [p |-> prs, exc |-> Exc("UnboundLocalError", None)]
    ELSE IF count > Len(prs.state_stack)
    THEN [p |-> [prs EXCEPT !.state_stack = <<>>], exc |-> Exc("IndexError", None)]
    ELSE [p |-> ChangeState([prs EXCEPT !.state_stack = SubSeq(@, count + 1, Len(@))],
                            prs.state_stack[count]),
          exc |-> NoExc]

\* _try_parse, lines 93-102: the options of the matching candidate change the
\* state, push a state or pop states; up to MaxParserOps candidates match and the
\* stack grows to MaxStack entries
MaxParserOps == 5
MaxStack == 3
MaxPop == 2
ParserStates == {"idle", "a", "b"}
ParserReady == call.status # "raised" /\ Len(vis.log) < MaxParserOps

DoChangeState ==
    /\ ParserReady
    /\ \E change_state \in ParserStates :
          vis' = Logged(ChangeState(vis, change_state), "change", None, vis.state)
    /\ UNCHANGED <<heap, stack, retval, call, plan, snap>>

DoPushState ==
    /\ ParserReady /\ Len(vis.state_stack) < MaxStack
    /\ \E push_state \in ParserStates :
          vis' = Logged(PushState(vis, push_state), "push", None, vis.state)
    /\ UNCHANGED <<heap, stack, retval, call, plan, snap>>

DoPopState ==
    /\ ParserReady
    /\ \E pop_state \in 0..MaxPop :
          /\ vis' = Logged(PopState(vis, pop_state).p, "pop", pop_state, vis.state)
          /\ call' = IF PopState(vis, pop_state).exc = NoExc THEN call
                     ELSE [call EXCEPT !.status = "raised",
                                       !.exc = PopState(vis, pop_state).exc]
    /\ UNCHANGED <<heap, stack, retval, plan, snap>>

InitParser ==
    /\ heap = GenericTree
    /\ vis = NewDataParser("idle")
    /\ stack = <<>>
    /\ retval = NoneV
    /\ call = NewCall(None, 1, {TRUE})
    /\ plan = [nest |-> 0, pre |-> NoPre, post |-> NoPost, col |-> NoCol]
    /\ snap = heap

ParserNext == DoChangeState \/ DoPushState \/ DoPopState \/ DoHandle
SpecParser == InitParser /\ [][ParserNext]_vars

----------------------------------------------------------------------------
(* What the log says *)

Log == vis.log
HasRet(n) == \E i \in 1..Len(Log) : Log[i].e = "return" /\ Log[i].n = n
\* the value the (last) activation of _visit on n returned
RetOf(n) ==
    Log[CHOOSE i \in 1..Len(Log) :
            /\ Log[i].e = "return" /\ Log[i].n = n
            /\ \A j \in (i + 1)..Len(Log) : ~(Log[j].e = "return" /\ Log[j].n = n)].r
\* the slots of n that were descended into, in the order of the descents
RECURSIVE DescentsFrom(_, _)
DescentsFrom(n, i) ==
    IF i > Len(Log) THEN <<>>
    ELSE IF Log[i].e = "descend" /\ Log[i].n = n THEN <<Log[i].a>> \o DescentsFrom(n, i + 1)
    ELSE DescentsFrom(n, i + 1)
\* the reverse_visit flag was set, and no child traversal has started since, before event i
ReversePending(i) ==
    \E j \in 1..(i - 1) :
        /\ Log[j].e = "set_flag" /\ Log[j].a = "reverse_visit"
        /\ \A k \in (j + 1)..(i - 1) : Log[k].e # "begin"

----------------------------------------------------------------------------
(* Claims *)

\* C1: the slots of a node are descended into in declared order; when the
\* reverse_visit flag is set as the child traversal of a node starts, the slots of
\* that node alone are descended into in reversed order, the flag is cleared, and
\* every node traversed later is traversed in declared order again.
C1_VisitOrder ==
    \A i \in 1..Len(Log) :
        Log[i].e = "begin" =>
            LET n == Log[i].n
                expected == IF ReversePending(i) THEN Reverse(heap[n].names) ELSE heap[n].names
            IN /\ IsPrefix(DescentsFrom(n, 1), expected)
               /\ HasRet(n) => DescentsFrom(n, 1) = expected
               /\ i = Len(Log) => ~vis.flags.reverse_visit

\* a pass in which the root was traversed in reversed order and node 2, reached last,
\* in declared order
C1_Witness ==
    /\ call.status = "returned"
    /\ DescentsFrom(1, 1) = <<"c", "b", "a">>
    /\ DescentsFrom(2, 1) = <<"x", "y">>

RECURSIVE SplicedFrom(_)
SplicedFrom(i) ==
    IF i > ListLen THEN <<>>
    ELSE (IF RetOf(Elems[i]).many THEN RetOf(Elems[i]).val ELSE <<Elems[i]>>)
         \o SplicedFrom(i + 1)

CopyOf == call.value.val[1]
\* two nodes have the same kind and slots that hold equal leaves and, recursively,
\* structurally equal nodes
RECURSIVE StructEq(_, _, _)
StructEq(h, a, b) ==
    /\ h[a].kind = h[b].kind
    /\ h[a].names = h[b].names
    /\ \A nm \in Range(h[a].names) :
          LET va == h[a].slots[nm]
              vb == h[b].slots[nm]
          IN /\ va.many = vb.many
             /\ Len(va.val) = Len(vb.val)
             /\ \A i \in 1..Len(va.val) :
                   IF IsNode(va.val[i])
                   THEN IsNode(vb.val[i]) /\ StructEq(h, va.val[i], vb.val[i])
                   ELSE va.val[i] = vb.val[i]

\* C4: copy(N) is a node other than N whose visitable slots are structurally equal
\* to those of N; its parent is None when copy is given no parent; and whatever is
\* assigned later to a slot of the copy or of a node inside the copy, every slot of
\* N and of the descendants of N stays as it was.
C4_CopyLaw ==
    (call.status = "returned" /\ Len(Log) >= 1 /\ Log[1].e = "copy") =>
        /\ CopyOf # call.root
        /\ CopyOf \notin Reach(snap, call.root)
        /\ StructEq(snap, call.root, CopyOf)
        /\ call.arg = None => snap[CopyOf].parent = None
        /\ \A n \in Reach(snap, call.root) : heap[n].slots = snap[n].slots

\* the root was copied without a parent argument, then a slot of a node inside the
\* copy and a slot of the copy itself were assigned
C4_Witness ==
    /\ call.status = "returned" /\ call.root = 1 /\ call.arg = None
    /\ Len(Log) = 3 /\ Log[1].e = "copy"
    /\ Log[2].e = "setattr" /\ Log[2].n # CopyOf
    /\ Log[3].e = "setattr" /\ Log[3].n = CopyOf
    /\ heap[Log[2].n].slots # snap[Log[2].n].slots
    /\ heap[CopyOf].slots # snap[CopyOf].slots

\* get_error resolves the position of the node to a line of the text
Resolvable(v, h, node) == GetError(v, h, node, None).type = "SyntaxCheckerError"

\* C5: with "x" collected in the global table, collecting "x" with the default
\* arguments inside an open scope whose locals do not hold "x" raises no error and
\* scoped_symbol_lookup("x") then returns the node declared locally; once the
\* scopes are exited down to global level, the lookup returns the global node.
C5_Shadowing ==
    [][/\ \A node \in SymNodes :
            (/\ DoCollectSymbol("x", node, FALSE, FALSE)
             /\ Len(vis.scope_stack) > 0
             /\ DHas(vis.collected_globals, "x")
             /\ ~DHas(Locals(vis), "x"))
            => /\ call'.status = "returned"
               /\ ScopedSymbolLookup(vis', "x") = node
       /\ \A location \in ScopeLocs :
            (/\ DoExitScope(location)
             /\ call'.status = "returned"
             /\ Len(vis'.scope_stack) = 0
             /\ DHas(vis.collected_globals, "x"))
            => ScopedSymbolLookup(vis', "x") = DGet(vis.collected_globals, "x")]_vars

\* a scope in which "x" was declared by another node than the global "x" has been
\* exited to global level, where the lookup gives the global node
C5_Witness ==
    /\ call.op = "exit_scope" /\ call.status = "returned"
    /\ Len(vis.scope_stack) = 0
    /\ DHas(vis.collected_globals, "x")
    /\ \E i \in 1..Len(vis.collected_scopes) :
          /\ DHas(vis.dicts[vis.collected_scopes[i].tab], "x")
          /\ DGet(vis.dicts[vis.collected_scopes[i].tab], "x") # DGet(vis.collected_globals, "x")
    /\ ScopedSymbolLookup(vis, "x") = DGet(vis.collected_globals, "x")

RedefinitionCodes == {SYNTAX_ERR_GLOBAL_NAME_REDEFINED, SYNTAX_ERR_LOCAL_NAME_REDEFINED}

\* C7: the second run of visit on the unchanged tree raises no
\* redefinition error, and report_symbols() after the second run equals
\* report_symbols() after the first.
C7_TwoPassIdempotence ==
    /\ (call.passes = 2 /\ call.status = "raised") => call.exc.code \notin RedefinitionCodes
    /\ Len(call.report) = 2 => call.report[1] = call.report[2]

\* C8: on the tree with state A (go => B) and state B (stop => A) the first run of
\* StateMachineChecker.visit ends without error, states is ["A", "B"] and
\* get_state_transitions("A") is {"go": "B"}; and the run over the tree in which
\* both states use the event go ends without error too.
C8_EndToEnd ==
    /\ (heap = SMTree("ok") /\ call.passes = 1 /\ call.status \in {"returned", "raised"}) =>
          /\ call.status = "returned"
          /\ States(vis) = <<"A", "B">>
          /\ GetStateTransitions(vis, "A") = [e \in {"go"} |-> "B"]
    /\ (heap = SMTree("reuse") /\ call.passes = 1 /\ call.status \in {"returned", "raised"}) =>
          call.status = "returned"

\* the first run over the tree of the scenario has returned
C8_Witness ==
    /\ heap = SMTree("ok") /\ call.passes = 1 /\ call.status = "returned"
    /\ States(vis) = <<"A", "B">>
    /\ GetStateTransitions(vis, "B") = [e \in {"stop"} |-> "A"]

\* the last event of the log is the call of the callback key for node n
LastIsPre(n, key) ==
    /\ Log # <<>>
    /\ Log[Len(Log)].e = "pre" /\ Log[Len(Log)].n = n /\ Log[Len(Log)].a = key

\* C9: on the tree in which state A declares go => B and then go => A, the run
\* processes the first transition (node 7), and ends at the pre-callback of the
\* second (node 9) with the SyntaxCheckerError of code err1, unwrapped, for state A
\* and event go, although the transition leads to the current state (err2).
C9_DuplicateEvent ==
    (heap = SMTree("dup") /\ call.passes = 1 /\ call.status \in {"returned", "raised"}) =>
        /\ call.status = "raised"
        /\ call.exc = Exc("SyntaxCheckerError", ERR1)
        /\ \E i \in 1..Len(Log) : Log[i].e = "return" /\ Log[i].n = 7 /\ Log[i].r = One(7)
        /\ LastIsPre(9, "Transition")
        /\ vis.current_state = "A"
        /\ NameOf(heap, EventOf(heap, 9)) = "go"
        /\ NameOf(heap, ToStateOf(heap, 9)) = vis.current_state

\* the run over the tree with the duplicate event has raised
C9_Witness ==
    /\ heap = SMTree("dup") /\ call.passes = 1 /\ call.status = "raised"
    /\ call.exc.code = ERR1
    /\ DHas(Locals(vis), "go")

\* C10: visit(root) returns the value the post-visit of the root produced, for
\* ASTVisitor.visit and for SyntaxChecker.visit alike.
C10_VisitReturnsRoot ==
    (call.op = "visit" /\ call.status = "returned" /\ HasRet(call.root)) =>
        call.value = RetOf(call.root)

\* the last callback or hook that ran, and the exception its innermost raising
\* callback constructed
CallbackEvents == {"pre", "post", "hook"}
HasCallback == \E i \in 1..Len(Log) : Log[i].e \in CallbackEvents
LastCallback ==
    Log[CHOOSE i \in 1..Len(Log) :
            /\ Log[i].e \in CallbackEvents
            /\ \A j \in (i + 1)..Len(Log) : Log[j].e \notin CallbackEvents]
DoneBy(ev) ==
    IF ev.e = "pre" THEN plan.pre[ev.n]
    ELSE IF ev.e = "post" THEN plan.post[ev.n]
    ELSE (CHOOSE m \in DGet(vis.hooks, ev.a) : TRUE).does
NestOf(ev) ==
    IF ev.e = "hook" THEN (CHOOSE m \in DGet(vis.hooks, ev.a) : TRUE).nest ELSE plan.nest
LastRaises == HasCallback /\ DoneBy(LastCallback) \in RaiseChoices
OriginalExc == BaseExc(DoneBy(LastCallback))

\* C11: when a pre-callback, a post-callback or a hook of an ASTVisitor raises, at
\* any node of the tree, visit() ends with a VisitError, and
\* find_embedded_exception() on it gives the exception that was first raised,
\* through every VisitError that nested visits wrapped around it.
C11_VisitErrorEmbeds ==
    /\ (vis.cls = "ASTVisitor" /\ LastRaises) =>
           /\ call.status = "raised"
           /\ call.exc.wraps >= 1
           /\ FindEmbeddedException(call.exc) = OriginalExc
    /\ (vis.cls = "ASTVisitor" /\ call.status = "raised") => LastRaises

\* a hook of node 3, two links below the root, raised out of two nested visits
C11_Witness ==
    /\ vis.cls = "ASTVisitor" /\ call.status = "raised"
    /\ LastCallback.e = "hook" /\ LastCallback.n = 3
    /\ NestOf(LastCallback) = 2 /\ call.exc.wraps = 3

\* C12: when a callback or a hook run by SyntaxChecker.visit raises a
\* SyntaxCheckerError, directly or out of visits the callback started, the caller
\* gets that SyntaxCheckerError itself; an exception of another class reaches the
\* caller inside a VisitError.
C12_CheckerUnwraps ==
    (vis.cls = "SyntaxChecker" /\ LastRaises) =>
        /\ call.status = "raised"
        /\ IF OriginalExc.type = "SyntaxCheckerError"
           THEN call.exc = OriginalExc
           ELSE call.exc.wraps >= 1 /\ FindEmbeddedException(call.exc) = OriginalExc

\* C13: add_allowed_prefixes and add_disallowed_prefixes, called by a callback of
\* a visit in progress, fail and end the visit with an error, and no step of a
\* visit changes the prefix sets; called while no visit is in progress, they
\* succeed and add the prefix to their set, leaving the other set alone.
C13_PrefixGuard ==
    [][/\ call.status = "running" =>
            /\ vis'.allowed_visits = vis.allowed_visits
            /\ vis'.not_allowed = vis.not_allowed
       /\ (PreVisit /\ PreChoice(plan, Top.node) \in {"add_allowed", "add_disallowed"}) =>
            call'.status = "raised" /\ call'.exc.wraps >= 1
       /\ \A p \in Prefixes :
            DoAddAllowedPrefixes(p) =>
                /\ call'.exc = NoExc
                /\ vis'.allowed_visits = vis.allowed_visits \cup {p}
                /\ vis'.not_allowed = vis.not_allowed
       /\ \A p \in Prefixes :
            DoAddDisallowedPrefixes(p) =>
                /\ call'.exc = NoExc
                /\ vis'.not_allowed = vis.not_allowed \cup {p}
                /\ vis'.allowed_visits = vis.allowed_visits]_vars

\* the nodes below root, reached through its child slots
Descendants(h, root) == Reach(h, root) \ {root}
OfKindBelow(h, root, node_type) == {n \in Descendants(h, root) : h[n].kind = node_type}
NoDuplicates(seq) == \A i, j \in 1..Len(seq) : seq[i] = seq[j] => i = j

\* C14: get_all_occurrences(root, T) returns, without raising, a list that holds
\* each node of kind T below root once and holds nothing else, wherever the nodes
\* of kind T stand (scalar slot, element of a sequence, below another node of kind
\* T) and whatever the string slots around them.
C14_AllOccurrences ==
    call.op = "get_all_occurrences" =>
        /\ call.exc = NoExc
        /\ NoDuplicates(call.value.val)
        /\ Range(call.value.val) = OfKindBelow(heap, call.root, call.arg)

\* C15: get_first_occurrence(root, T) returns the first element of
\* get_all_occurrences(root, T) when that list is not empty, and returns None
\* only when neither root nor any node below it is of kind T.
C15_FirstAgreesWithAll ==
    call.op = "get_first_occurrence" =>
        /\ call.exc = NoExc
        /\ GetAllOccurrences(heap, call.root, call.arg).val # <<>> =>
               call.value = One(GetAllOccurrences(heap, call.root, call.arg).val[1])
        /\ call.value = NoneV =>
               /\ ~IsOfKind(heap, call.root, call.arg)
               /\ OfKindBelow(heap, call.root, call.arg) = {}

\* the declaration of name in the nearest enclosing scope: scope_stack[i] holds the
\* locals of the scope that encloses the i-th open scope
RECURSIVE EnclosingLookup(_, _, _)
EnclosingLookup(v, name, i) ==
    IF i = 0 THEN None
    ELSE IF DHas(v.dicts[v.scope_stack[i].tab], name)
    THEN DGet(v.dicts[v.scope_stack[i].tab], name)
    ELSE EnclosingLookup(v, name, i - 1)
LexicalLookup(v, name) ==
    IF DHas(Locals(v), name) THEN DGet(Locals(v), name)
    ELSE IF EnclosingLookup(v, name, Len(v.scope_stack)) # None
    THEN EnclosingLookup(v, name, Len(v.scope_stack))
    ELSE IF DHas(v.collected_globals, name) THEN DGet(v.collected_globals, name)
    ELSE None

\* C16: at any depth of open scopes, scoped_symbol_lookup(name) returns the
\* declaration of the current locals, else that of the nearest enclosing scope
\* that declares the name, else the global one, else None.
C16_LexicalLookup ==
    [][DoLookup("x") => call'.value = One(LexicalLookup(vis, "x"))]_vars

\* the offsets below p that hold a newline character (offsets count from 0)
NewlinesBefore(txt, p) == {q \in 0..(p - 1) : txt[q + 1] = "\n"}
\* the offset of the first character of the line that holds offset p
LineStart(txt, p) ==
    IF NewlinesBefore(txt, p) = {} THEN 0
    ELSE 1 + CHOOSE q \in NewlinesBefore(txt, p) : \A q2 \in NewlinesBefore(txt, p) : q2 <= q

\* C17: for every offset p of the text, find_node_line_in_text(text, p) is the
\* pair of the 1-based line of p (one more than the newlines before p) and the
\* 1-based column of p in that line (p less the offset of the line start, plus 1).
C17_LineAndColumn ==
    call.op = "find_node_line_in_text" =>
        call.value = <<1 + Cardinality(NewlinesBefore(vis.text, call.arg)),
                       call.arg - LineStart(vis.text, call.arg) + 1>>

\* pause_visiting() was called before event i, by another callback than the
\* post-callback of node n
PausedBefore(i, n) ==
    \E j \in 1..(i - 1) :
        \/ Log[j].e = "pre" /\ PreChoice(plan, Log[j].n) = "pause"
        \/ Log[j].e = "post" /\ PostChoice(plan, Log[j].n) = "pause" /\ Log[j].n # n
\* a visit_<Kind> method or visit_Default is dispatched for node n
HasPostCallback(v, h, n) == KindOf(h, n) \in v.post_table \/ "Default" \in v.post_table

RECURSIVE CountEvents(_, _, _)
CountEvents(e, n, i) ==
    IF i > Len(Log) THEN 0
    ELSE (IF Log[i].e = e /\ Log[i].n = n THEN 1 ELSE 0) + CountEvents(e, n, i + 1)
HasPreCallback(v, h, n) == KindOf(h, n) \in v.pre_table \/ "Default" \in v.pre_table
PlainPlan == plan.pre = NoPre /\ plan.post = NoPost

\* C19: the pre-callback of a node comes before every pre- and post-callback of
\* the nodes below it, and its post-callback after all their post-callbacks; in a
\* pass without flags, pauses or edits every node of the tree is walked once and
\* gets one call of each callback that is dispatched for it.
C19_CallbackNesting ==
    /\ LET below == [n \in 1..TreeSize |-> Reach(snap, n) \ {n}]
       IN \A i, j \in 1..Len(Log) :
             (/\ Log[i].e \in {"pre", "post"} /\ Log[j].e \in {"pre", "post"}
              /\ IsNode(Log[i].n) /\ IsNode(Log[j].n)
              /\ Log[j].n \in below[Log[i].n]) =>
                 /\ Log[i].e = "pre" => i < j
                 /\ (Log[i].e = "post" /\ Log[j].e = "post") => j < i
    /\ (PlainPlan /\ call.status = "returned") =>
          \A n \in Reach(snap, call.root) :
              /\ CountEvents("return", n, 1) = 1
              /\ CountEvents("pre", n, 1) = IF HasPreCallback(vis, snap, n) THEN 1 ELSE 0
              /\ CountEvents("post", n, 1) = IF HasPostCallback(vis, snap, n) THEN 1 ELSE 0

\* a pass with a method for every kind and no flag has returned, node 3 having
\* been visited between the two callbacks of node 2
C19_Witness ==
    /\ PlainPlan /\ call.status = "returned"
    /\ vis.pre_table = GenericKinds /\ vis.post_table = GenericKinds
    /\ \E i, j, k, l \in 1..Len(Log) :
          /\ i < j /\ j < k /\ k < l
          /\ Log[i].e = "pre" /\ Log[i].n = 2
          /\ Log[j].e = "pre" /\ Log[j].n = 3
          /\ Log[k].e = "post" /\ Log[k].n = 3
          /\ Log[l].e = "post" /\ Log[l].n = 2

\* the sequence slot as the splices and the deletions of the elements from the i-th
\* on give it
RECURSIVE EditedFrom(_)
EditedFrom(i) ==
    IF i > ListLen THEN <<>>
    ELSE (IF RetOf(Elems[i]) = NoneV THEN <<>>
          ELSE IF RetOf(Elems[i]).many THEN RetOf(Elems[i]).val
          ELSE <<Elems[i]>>)
         \o EditedFrom(i + 1)
\* every element of the sequence slot was returned unchanged, deleted or spliced, and
\* the pass had at least one splice and one deletion
SplicesAndDeletes ==
    /\ call.status = "returned"
    /\ \A e \in Range(Elems) : RetOf(e) = One(e) \/ RetOf(e) = NoneV \/ RetOf(e).many
    /\ \E e \in Range(Elems) : RetOf(e).many
    /\ \E e \in Range(Elems) : RetOf(e) = NoneV

\* C20: when some elements of a sequence slot yield a list of nodes and others yield
\* None in the same pass, the slot afterwards is the original sequence with every
\* spliced element replaced by its list and exactly the deleted elements removed,
\* the deleted elements have their parent link cleared, and every inserted node
\* and every kept element stays in the slot with the owner as parent.
C20_SplicesAndDeletes ==
    SplicesAndDeletes =>
        /\ heap[1].slots["b"] = Many(EditedFrom(1))
        /\ \A e \in Range(Elems) : RetOf(e) = NoneV => heap[e].parent = None
        /\ \A m \in Range(EditedFrom(1)) : heap[m].parent = 1

\* C21: after a pass whose callbacks replace, splice and delete with nodes that the
\* tree did not hold, every node held in a scalar or sequence slot s of an owner O
\* of the tree has parent O and parent_key s.
C21_ParentLinks ==
    call.status = "returned" =>
        \A o \in Reach(heap, call.root) : \A s \in Range(heap[o].names) :
            \A m \in Range(heap[o].slots[s].val) :
                IsNode(m) => heap[m].parent = o /\ heap[m].pkey = s

\* the node of the scalar slot was replaced, one element was spliced by two nodes and
\* another deleted
C21_Witness ==
    /\ call.status = "returned"
    /\ IsNode(RetOf(2).val[1]) /\ RetOf(2) # One(2) /\ heap[1].slots["a"] = RetOf(2)
    /\ RetOf(Elems[1]).many /\ Len(RetOf(Elems[1]).val) = 2
    /\ RetOf(Elems[ListLen]) = NoneV

\* C22: when the post-callback of the node held in a scalar slot returns None, the
\* slot is None afterwards and the removed node's parent link is cleared; when it
\* returns another node, the old node no longer has the owner as parent.
C22_ScalarUnlink ==
    call.status = "returned" =>
        /\ RetOf(2) = NoneV => heap[1].slots["a"] = NoneV /\ heap[2].parent = None
        /\ (RetOf(2) # NoneV /\ RetOf(2) # One(2)) =>
              heap[1].slots["a"] = RetOf(2) /\ heap[2].parent # 1

\* the nodes of the copy carry the copy flag and the start position of the node of
\* the original they stand for
RECURSIVE CopyMeta(_, _, _)
CopyMeta(h, a, b) ==
    /\ h[b].copy /\ h[b].orig = (IF h[a].pos = NoPos THEN PosNone ELSE h[a].pos)
    /\ \A nm \in Range(h[a].names) : \A i \in 1..Len(h[a].slots[nm].val) :
          IsNode(h[a].slots[nm].val[i]) =>
              CopyMeta(h, h[a].slots[nm].val[i], h[b].slots[nm].val[i])

\* C23: in copy(N) every copied node other than the root of the copy has its owner
\* inside the copy as parent and the name of the slot that holds it as parent_key,
\* in scalar and in sequence slots; no copied node has a parent or a child in the
\* original subtree; every copied node is flagged as a copy and carries the original
\* position.
C23_CopyLinks ==
    (call.status = "returned" /\ Len(Log) = 1 /\ Log[1].e = "copy") =>
        LET copied == Reach(snap, CopyOf)
        IN /\ \A o \in copied : \A s \in Range(snap[o].names) :
                 \A m \in Range(snap[o].slots[s].val) :
                     IsNode(m) => snap[m].parent = o /\ snap[m].pkey = s
           /\ copied \cap Reach(snap, call.root) = {}
           /\ \A m \in copied \ {CopyOf} : snap[m].parent \in copied
           /\ CopyMeta(snap, call.root, CopyOf)

\* the nodes with the scope marker whose walk is past the pre-visit and not yet past
\* the post-visit, outermost first
RECURSIVE OpenScopeNodes(_)
OpenScopeNodes(i) ==
    IF i > Len(stack) THEN <<>>
    ELSE (IF IsScopeNode(heap, stack[i].node) /\ stack[i].pc # "pre"
          THEN <<stack[i].node>> ELSE <<>>) \o OpenScopeNodes(i + 1)

\* C24: SyntaxChecker opens a scope frame at the pre-visit of every node whose kind
\* carries the scope marker and closes it at the node's post-visit, whether or not
\* the kind has its own pre-callback or post-callback; the depth of the scope stack
\* after such a node is the depth before it, and after a visit of the whole tree
\* the scope stack is empty.
C24_ScopePerMarkedNode ==
    /\ call.status # "raised"
    /\ [i \in 1..Len(vis.scope_stack) |-> vis.scope_stack[i].loc] = OpenScopeNodes(1)
    /\ call.status = "returned" => vis.scope_stack = <<>>

\* C25: while no pass has completed, _exit_scope stores a copy of the current locals
\* in the archive under the node that opened the frame it pops and makes the
\* enclosing frame's locals current again; once a pass has completed it only pops
\* and restores the enclosing locals and writes nothing to the archive.  The frame
\* _enter_scope pushes holds the table that was current, so that the locals after a
\* matched enter and exit are the table that was current before the enter.
C25_ExitScopeProtocol ==
    [][/\ \A location \in ScopeLocs \ {None} :
            (DoExitScope(location) /\ vis.scope_stack # <<>>) =>
                LET top == vis.scope_stack[Len(vis.scope_stack)]
                IN /\ call'.status = "returned"
                   /\ vis'.scope_stack = Prefix(vis.scope_stack, Len(vis.scope_stack) - 1)
                   /\ vis'.collected_locals = top.tab
                   /\ \A i \in 1..Len(vis.dicts) : vis'.dicts[i] = vis.dicts[i]
                   /\ IF vis.pass_run
                      THEN /\ vis'.collected_scopes = vis.collected_scopes
                           /\ vis'.dicts = vis.dicts
                      ELSE /\ InScopes(vis', top.loc)
                           /\ ScopeOf(vis', top.loc).tab \notin 1..Len(vis.dicts)
                           /\ vis'.dicts[ScopeOf(vis', top.loc).tab] = Locals(vis)
                           /\ \A i \in 1..Len(vis.collected_scopes) :
                                 vis.collected_scopes[i].loc # top.loc =>
                                     /\ InScopes(vis', vis.collected_scopes[i].loc)
                                     /\ ScopeOf(vis', vis.collected_scopes[i].loc)
                                            = vis.collected_scopes[i]
       /\ \A location \in ScopeLocs \ {None} :
            DoEnterScope(location) =>
                /\ Len(vis'.scope_stack) = Len(vis.scope_stack) + 1
                /\ vis'.scope_stack[Len(vis'.scope_stack)]
                       = [loc |-> location, tab |-> vis.collected_locals]]_vars

\* before any pass has completed, a scope in which "x" was collected has been exited
\* to global level and its locals are in the archive
C25_Witness ==
    /\ call.op = "exit_scope" /\ call.status = "returned"
    /\ ~vis.pass_run /\ vis.scope_stack = <<>> /\ vis.collected_locals = 1
    /\ \E i \in 1..Len(vis.collected_scopes) :
          DHas(vis.dicts[vis.collected_scopes[i].tab], "x")

\* C26: _pass_run becomes true only when a SyntaxChecker.visit called with
\* flag_run=True returns; a visit with flag_run=False and a visit that raises leave
\* it as it was, so that the scopes closed in a following pass are still archived;
\* once true, no visit makes it false.
C26_PassRunFlag ==
    [][/\ (call.status = "running" /\ call'.status = "returned") =>
              vis'.pass_run = (vis.pass_run \/ call.flag_run)
       /\ ~(call.status = "running" /\ call'.status = "returned") =>
              vis'.pass_run = vis.pass_run
       /\ (~vis.pass_run /\ Len(vis'.scope_stack) < Len(vis.scope_stack)) =>
              /\ Len(vis'.dicts) = Len(vis.dicts) + 1
              /\ InScopes(vis', vis.scope_stack[Len(vis.scope_stack)].loc)]_vars

\* a first visit with flag_run=False has returned and a scope is closed and archived
\* again in the second
C26_Witness ==
    /\ call.passes = 2 /\ call.status = "running" /\ ~vis.pass_run
    /\ Len(vis.collected_scopes) = ListLen + 1 /\ Len(vis.dicts) > ListLen + 3

\* C27: _collect_symbol inserts into the global table and leaves every locals table
\* as it was when no scope frame is open or globl is given, at any depth; otherwise
\* it inserts into the current locals and leaves the global table and the locals of
\* every enclosing frame as they were.
C27_TargetTable ==
    [][\A name \in SymNames, node \in SymNodes, globl \in BOOLEAN, ignore \in BOOLEAN :
          (DoCollectSymbol(name, node, globl, ignore) /\ call'.status = "returned") =>
             IF Len(vis.scope_stack) = 0 \/ globl
             THEN /\ DHas(vis'.collected_globals, name)
                  /\ ~DHas(vis.collected_globals, name) =>
                         vis'.collected_globals = DPut(vis.collected_globals, name, node)
                  /\ vis'.dicts = vis.dicts
             ELSE /\ DHas(Locals(vis'), name)
                  /\ ~DHas(Locals(vis), name) => Locals(vis') = DPut(Locals(vis), name, node)
                  /\ vis'.collected_globals = vis.collected_globals
                  /\ \A i \in 1..Len(vis.scope_stack) :
                        vis'.dicts[vis.scope_stack[i].tab] = vis.dicts[vis.scope_stack[i].tab]
                  /\ vis'.collected_locals = vis.collected_locals
                  /\ vis'.scope_stack = vis.scope_stack]_vars

\* "x" was collected with globl inside two open scopes: it is in the global table and
\* in no locals table
C27_Witness ==
    /\ call.op = "collect_symbol" /\ call.status = "returned"
    /\ call.arg.globl /\ call.arg.name = "x" /\ Len(vis.scope_stack) = 2
    /\ DHas(vis.collected_globals, "x") /\ DGet(vis.collected_globals, "x") = call.root
    /\ \A i \in 1..Len(vis.dicts) : ~DHas(vis.dicts[i], "x")

\* C28: _collect_symbol with ignore_redefine=True for a name its target table already
\* holds raises no error and leaves the table as it was, with the first declaring
\* node; collecting the name again with ignore_redefine=True, any number of times,
\* leaves the tables as after the first collection.
C28_IdempotentRedeclaration ==
    [][\A name \in SymNames, node \in SymNodes, globl \in BOOLEAN :
          DoCollectSymbol(name, node, globl, TRUE) =>
             LET glob == Len(vis.scope_stack) = 0 \/ globl
                 target == IF glob THEN vis.collected_globals ELSE Locals(vis)
                 once == CollectSymbol(vis, heap, name, node, globl, TRUE)
             IN /\ call'.status = "returned"
                /\ DHas(target, name) =>
                      /\ vis'.collected_globals = vis.collected_globals
                      /\ vis'.dicts = vis.dicts
                /\ \A again \in SymNodes :
                      /\ CollectSymbol(once, heap, name, again, globl, TRUE) = once
                      /\ CollectSymbol(CollectSymbol(once, heap, name, again, globl, TRUE),
                                       heap, name, node, globl, TRUE) = once]_vars

\* inside a scope a name was collected again, with ignore_redefine and for another
\* node, and the locals still hold the first node
C28_Witness ==
    /\ call.op = "collect_symbol" /\ call.status = "returned"
    /\ call.arg.ignore /\ ~call.arg.globl /\ Len(vis.scope_stack) > 0
    /\ DHas(Locals(vis), call.arg.name)
    /\ DGet(Locals(vis), call.arg.name) # call.root

\* event i is a call of pause_visiting(): that of a callback of the plan
IsPause(i) ==
    \/ Log[i].e = "pre" /\ PreChoice(plan, Log[i].n) = "pause"
    \/ Log[i].e = "post" /\ PostChoice(plan, Log[i].n) = "pause"
\* event i lies between a call of pause_visiting() and the next resume_visiting()
Paused(i) ==
    \E j \in 1..(i - 1) : IsPause(j) /\ \A k \in (j + 1)..(i - 1) : Log[k].e # "resume"
\* the walk of the node of event i began before the pause that event i lies under:
\* the node is the one whose post-callback paused
PausedItself(i) ==
    \E j \in 1..(i - 1) :
        /\ Log[j].e = "post" /\ IsPause(j) /\ Log[j].n = Log[i].n
        /\ \A k \in (j + 1)..(i - 1) : Log[k].e \notin {"resume", "return"}
\* the returns that _visit recorded in the history
Recorded == {i \in 1..Len(Log) : Log[i].e = "return" /\ (~Paused(i) \/ PausedItself(i))}

\* C29: from a call of pause_visiting() to the next call of resume_visiting() no
\* pre-callback, post-callback or hook is called for any node while the walk still
\* descends into the children; every node walked in between is returned unchanged
\* and gets no history entry; after resume_visiting() the callbacks are called
\* again for the nodes walked afterwards.
C29_PauseResume ==
    /\ \A i \in 1..Len(Log) :
          Paused(i) =>
             /\ Log[i].e \notin {"pre", "post", "hook"}
             /\ Log[i].e = "return" => Log[i].r = One(Log[i].n)
    /\ Len(vis.visit_history) = Cardinality(Recorded)
    /\ \A i \in 1..Len(Log) :
          (Log[i].e = "return" /\ IsNode(Log[i].n) /\ ~Paused(i)) =>
              /\ i > 2 /\ Log[i - 1].e = "hook" /\ Log[i - 2].e = "post"
              /\ Log[i - 1].n = Log[i].n /\ Log[i - 2].n = Log[i].n
    /\ call.status = "returned" =>
          \A n \in Reach(snap, call.root) : HasRet(n)

\* the pre-callback of node n was called and set the no_children_visits flag
SkipsChildren(n) ==
    /\ PreChoice(plan, n) = "nochild"
    /\ \E i \in 1..Len(Log) : Log[i].e = "pre" /\ Log[i].n = n

\* C30: when the pre-callback of a node sets the no_children_visits flag, none of the
\* slots of the node is descended into, the post-callback and the hooks of the node
\* are still called, and the flag is cleared when it is used: every other node that
\* is walked has all its slots descended into.
C30_SkipChildrenOnce ==
    /\ ~vis.flags.no_children_visits
    /\ \A n \in 1..TreeSize :
          IF SkipsChildren(n)
          THEN /\ \A i \in 1..Len(Log) :
                     Log[i].n = n => Log[i].e \notin {"begin", "descend"}
               /\ \A c \in Reach(snap, n) \ {n} : ~HasRet(c)
               /\ \A i \in 1..Len(Log) :
                     (Log[i].e = "return" /\ Log[i].n = n) =>
                         /\ HasPostCallback(vis, snap, n) =>
                               \E j \in 1..(i - 1) : Log[j].e = "post" /\ Log[j].n = n
                         /\ DHas(vis.hooks, KindOf(snap, n)) =>
                               Log[i - 1].e = "hook" /\ Log[i - 1].n = n
          ELSE HasRet(n) => DescentsFrom(n, 1) = snap[n].names

\* node 2, whose pre-callback sets the flag, was walked with its post-callback and
\* its hook and without its child, and the elements after it were walked with their
\* slots
C30_Witness ==
    /\ call.status = "returned" /\ SkipsChildren(2)
    /\ vis.post_table = GenericKinds /\ DHas(vis.hooks, "Blk")
    /\ HasRet(2) /\ ~HasRet(3)
    /\ \A e \in Range(Elems) : HasRet(e) /\ DescentsFrom(e, 1) = <<"v", "w">>

\* node n was entered: its pre-visit was made
Entered(n) == \E i \in 1..Len(stack) : stack[i].node = n /\ stack[i].pc # "pre"

\* C31: with the minimal_depth flag set, no child of a node whose kind has a
\* visit_<Kind> method is walked when the node is entered, whether or not the kind
\* has a visitPre_<Kind> method; the children of the nodes of the other kinds are
\* walked.
C31_MinimalDepth ==
    vis.flags.minimal_depth =>
        \A n \in 1..TreeSize :
            IF KindOf(snap, n) \in vis.post_table
            THEN /\ \A i \in 1..Len(Log) :
                       Log[i].n = n => Log[i].e \notin {"begin", "descend"}
                 /\ \A c \in Reach(snap, n) \ {n} : ~HasRet(c) /\ ~Entered(c)
            ELSE HasRet(n) => DescentsFrom(n, 1) = snap[n].names

\* the names of s that match an entry of the compiled allow-list
AllowedNames(v, s) ==
    SelectSeq(s, LAMBDA nm : \E allowed \in v.allowed_matches : Match(allowed, nm))

ReturnsOf(n) == {i \in 1..Len(Log) : Log[i].e = "return" /\ Log[i].n = n}

\* C33: with the flag ignore_visited set, within one visit() the kind-specific
\* post-callback of a node is invoked at most once; every further walk of the node
\* returns the node itself, so the reference walked is not changed.
C33_OncePerVisit ==
    vis.flags.ignore_visited =>
        \A n \in 1..TreeSize :
            KindOf(snap, n) \in vis.post_table =>
                /\ CountEvents("post", n, 1) <= 1
                /\ \A i \in ReturnsOf(n), j \in ReturnsOf(n) : i < j => Log[j].r = One(n)

\* the post-callback of node 2 replaced it in slot a of the root; the walk of slot c,
\* which refers to node 2 too, did not invoke it again and left the slot as it was
C33_Witness ==
    /\ vis.flags.ignore_visited /\ call.status = "returned"
    /\ "Blk" \in vis.post_table /\ plan.post[2] = "replace"
    /\ Cardinality(ReturnsOf(2)) = 2 /\ CountEvents("post", 2, 1) = 1
    /\ heap[1].slots.a # One(2) /\ heap[1].slots.c = One(2)

\* C34: ignore_visited only applies to the post-visit: every walk of a node whose
\* kind has a pre-callback invokes that callback, also when the node is in the
\* visited set.
C34_PreStillInvoked ==
    \A n \in 1..TreeSize :
        KindOf(snap, n) \in vis.pre_table =>
            Cardinality(ReturnsOf(n)) <= CountEvents("pre", n, 1)

\* the same, with the flag ignore_visited clear
C34_WithoutFlag == vis.flags.ignore_visited \/ C34_PreStillInvoked

\* this step is a call of get_last_visited() that returns an entry
GetLastStep ==
    /\ call.status = "returned" /\ call'.status = "returned"
    /\ vis'.log = vis.log
    /\ call'.op = "get_last_visited"

\* the last k entries of s
LastN(s, k) == IF Len(s) <= k THEN s ELSE SubSeq(s, Len(s) - k + 1, Len(s))
\* this step completes an activation of _visit
Completes ==
    /\ Len(vis'.log) > Len(vis.log)
    /\ vis'.log[Len(vis'.log)].e = "return"
\* the history entry of the activation that this step completes: the returned value,
\* the walked node if another value is returned, and the number of open activations
EntryOfStep ==
    LET ev == vis'.log[Len(vis'.log)]
    IN [node |-> ev.r, replaces |-> IF ev.r = One(ev.n) THEN None ELSE ev.n,
        depth |-> Len(stack)]
HistoryStep ==
    IF Completes /\ ~vis.dont_visit
    THEN vis'.visit_history =
            LastN(Append(vis.visit_history, EntryOfStep), vis.history_len)
    ELSE vis'.visit_history = vis.visit_history

\* C35: the history holds the history_len most recent post-visits that completed
\* while the visit was not paused, in the order of completion, the oldest evicted
\* first (none when history_len is 0); an entry is the returned value, the walked
\* node when the returned value differs from it and None otherwise, and the nesting
\* depth of the walked node, 1 for the root.  (The steps are those of visit();
\* get_last_visited() reorders the history.)
C35_BoundedHistory == [][GetLastStep \/ HistoryStep]_vars

\* the same for the steps of a visitor none of whose visits raised
C35_UntilRaise == [][vis.visit_depth = Len(stack) => (GetLastStep \/ HistoryStep)]_vars

\* C38: get_last_visited() returns the newest entry of a history that holds at least
\* one entry.
C38_LastVisited ==
    [][GetLastStep => call'.report[1] = vis.visit_history[Len(vis.visit_history)]]_vars

\* the same for a history of one entry
C38_SingleEntry ==
    [][(GetLastStep /\ Len(vis.visit_history) = 1) =>
          call'.report[1] = vis.visit_history[1]]_vars

\* C39: on every exit from visit(), by return or by an exception, the visitor is no
\* longer visiting and its depth counter has the value it had before the call.
C39_StateRestored ==
    call.status \in {"returned", "raised"} =>
        /\ ~vis.visiting
        /\ vis.visit_depth = 0

\* the same for the visits that return
C39_OnReturn ==
    call.status = "returned" => (~vis.visiting /\ vis.visit_depth = 0)

\* the states that were current before the pushes of the first i calls that no pop
\* has matched yet, a pop of count levels matching the count most recent ones
RECURSIVE Unpopped(_)
Unpopped(i) ==
    IF i = 0 THEN <<>>
    ELSE IF Log[i].e = "push" THEN Append(Unpopped(i - 1), Log[i].a)
    ELSE IF Log[i].e = "pop" THEN Prefix(Unpopped(i - 1), Len(Unpopped(i - 1)) - Log[i].n)
    ELSE Unpopped(i - 1)

\* this step is a pop of one level from a stack that is not empty
PopsOne ==
    /\ Len(vis'.log) = Len(vis.log) + 1
    /\ vis'.log[Len(vis'.log)].e = "pop" /\ vis'.log[Len(vis'.log)].n = 1
    /\ vis.state_stack # <<>>

\* C40: a pop of one level makes current the state that was current before the most
\* recent push not yet popped and removes that entry only from the stack, so that n
\* pushes followed by n pops of one level leave the starting state and an empty
\* stack.
C40_StackIsLifo ==
    [][PopsOne =>
          /\ vis'.state = Unpopped(Len(vis.log))[Len(Unpopped(Len(vis.log)))]
          /\ Len(vis'.state_stack) = Len(vis.state_stack) - 1]_vars

\* the same as long as no state was pushed while another was on the stack
C40_OneLevel ==
    [][(PopsOne /\ \A i \in 1..Len(vis.log) : Len(Unpopped(i)) <= 1) =>
          /\ vis'.state = Unpopped(Len(vis.log))[Len(Unpopped(Len(vis.log)))]
          /\ vis'.state_stack = <<>>]_vars

\* C36: get_error and get_error_from_code always return a SyntaxCheckerError, for a
\* node without a position and for a position beyond the text too; they never
\* raise another exception.
C36_AlwaysAnError ==
    call.op \in {"get_error", "get_error_from_code"} =>
        /\ call.status = "returned"
        /\ call.exc.type = "SyntaxCheckerError"

\* the same for a node whose position find_node_line_in_text resolves
C36_WhenResolved ==
    (/\ call.op \in {"get_error", "get_error_from_code"}
     /\ heap[call.arg].pos \notin {NoPos, PosNone}
     /\ FindNodeLineInText(vis.text, heap[call.arg].pos) # <<>>) =>
        /\ call.status = "returned"
        /\ call.exc.type = "SyntaxCheckerError"

\* the value v is of the declared type t
Conforms(h, t, v) ==
    IF t.form = "none" THEN TRUE
    ELSE IF t.form = "class" THEN ~v.many /\ IsInstance(h, v.val[1], t.of)
    ELSE IF t.form = "optional" THEN ~v.many /\ (v = NoneV \/ IsInstance(h, v.val[1], t.of))
    ELSE IF t.form = "list" THEN v.many /\ \A i \in 1..Len(v.val) : IsInstance(h, v.val[i], t.of)
    ELSE \/ v = NoneV
         \/ v.many /\ \A i \in 1..Len(v.val) : IsInstance(h, v.val[i], t.of)

\* this step assigns call'.report[2] to the slot call'.report[1] of the node call'.arg
AssignStep == call'.op = "setattr" /\ call'.passes = call.passes + 1
AssignOutcome ==
    LET owner == call'.arg
        name == call'.report[1]
        v == call'.report[2]
    IN IF Conforms(heap, heap[owner].annotations[name], v)
       THEN /\ call'.status = "returned"
            /\ heap'[owner].slots[name] = v
            /\ \A m \in Range(v.val) :
                  IsNode(m) => (heap'[m].parent = owner /\ heap'[m].pkey = name)
       ELSE /\ call'.status = "raised" /\ call'.exc.type = "TypeError"
            /\ heap' = heap

\* C37: an assignment to a visitable slot of an initialized node of a value that is
\* not of the declared type of the slot raises TypeError and changes nothing; an
\* accepted assignment of a node, or of a sequence with nodes, makes the owner the
\* parent and the slot name the parent_key of each node.
C37_TypedAssignment == [][AssignStep => AssignOutcome]_vars

\* the same for the assignments of a sequence and for the slots declared with a class
C37_Sequences ==
    [][(AssignStep /\ (call'.report[2].many \/ call'.report[1] = "a")) =>
          AssignOutcome]_vars

====
